---- MODULE Spec2Model ----
(***************************************************************************)
(* Model of the GESTALT phylogenetic likelihood engine                     *)
(* (src/gestalt/clt_likelihood_model.py, clt_likelihood_estimator.py).     *)
(*                                                                         *)
(* Real numbers.  Trim probabilities are multiples of 1/ProbDenom and are  *)
(* stored as fixed-point integers over the denominator                     *)
(* Unit = ProbDenom * ProbDenom: the real x is stored as x * Unit.  Target *)
(* rates are positive integers.  Every hazard of the model is a product of *)
(* rates and of at most two probabilities, so it is an exact multiple of   *)
(* 1/Unit and the fixed-point product Mul is exact.  exp(log a + log b)    *)
(* is modelled by the product a * b it computes.                           *)
(*                                                                         *)
(* The specifications share the variables: SpecHazard (hazards and hazard  *)
(* masks of a growing tts), SpecQ (assembly of the instantaneous           *)
(* transition matrix from a skeleton), SpecQMalformed (the same from a     *)
(* skeleton with a transition that is not a possible event), SpecLik (the  *)
(* postorder traversal of get_likelihood), SpecDel (deletion probability   *)
(* of a singleton), SpecEngine (building the model and the estimator from  *)
(* a topology), SpecMatch (the scan of get_matching_singletons),           *)
(* SpecScorer (the fitting attempts of LikelihoodScorer), SpecSimulate     *)
(* (cut and repair along a branch, allele_simulator_simult.py),            *)
(* SpecBirthDeath (the birth-death tree of clt_simulator.py) and SpecUniq  *)
(* (get_uniq_trees of tree_distance.py).  In SpecLik the partial           *)
(* likelihoods are rational vectors [vals, den] kept in lowest terms, and  *)
(* log_lik is kept as the rational exp(log_lik).                           *)
(***************************************************************************)
EXTENDS Integers, Sequences, FiniteSets, TLC

VARIABLES
    target_lams,        \* cut rate of each target (sequence, 1-based: target i is entry i + 1)
    trim_long_probs,    \* <<pL, pR>>, fixed point
    double_cut_weight,  \* the spec's parameter w; the model class has no such field
    pc,                 \* position of the evaluation
    tts,                \* the target tract repr (tuple of target tracts) at hand
    prev_tts,           \* the tts before the last target tract was added
    tt_evt,             \* the target tract event whose hazard was computed last
    hazard,             \* hazard of tt_evt, fixed point
    hazard_masks,       \* <<left list, right list>> of _get_hazard_masks(tts)
    hazard_away,        \* hazard away from tts, fixed point
    prev_hazard_away,   \* hazard away from prev_tts, fixed point
    matrix_wrapper,     \* a node's transition matrix skeleton (TransitionMatrixWrapper)
    q_matrix,           \* the instantaneous transition matrix assembled from it
    topology,           \* parent of each node; node ids number the nodes in postorder
    state_sum,          \* node id -> the tts_list of the node's state sum
    key_dicts,          \* node id -> key_dict of the node's transition matrix wrapper
    pt_matrix,          \* child id -> probability matrix of the branch above the child
    trim_probs,         \* child id -> trim probability matrix of that branch
    ch_down_probs,      \* child id -> ch_ordered_down_probs, in the child's numbering
    down_probs,         \* child id -> down_probs, in the parent's numbering
    scaler,             \* the scaler of the last internal node, [num, den]
    singleton_cond_prob, \* child id -> conditional probability of the singletons of its anc_state
    L,                  \* node id -> partial likelihood vector [vals, den]
    log_lik,            \* exp of the log_lik accumulator, entries [num, den]
    node_ptr,           \* the node the postorder traversal visits next
    trim_zero_prob,     \* zero inflation of the deletion length, [num, den]
    singleton,          \* the singleton whose deletion probability is computed
    del_prob,           \* its deletion probability, [num, den]
    leaf_state,         \* node -> the observed tts of a leaf of the topology given to a build
    node_ids,           \* node -> the node_id feature of the topology's nodes
    anc_state,          \* node -> the anc_state feature of the topology's nodes
    model_params,       \* the CLTLikelihoodModel built last
    engines,            \* the estimators built so far, in order
    indel_set_list,     \* the indel sets of the anc_state that is scanned
    diff_target_tracts, \* the target tracts the singletons are matched against
    sg_idx,             \* position of the scan in the singletons of indel_set_list
    tts_idx,            \* position of the scan in diff_target_tracts
    matching_sgs,       \* the singletons matched so far
    num_inits,          \* LikelihoodScorer.num_inits
    max_try_per_init,   \* the argument max_try_per_init of LikelihoodScorer
    max_tries,          \* LikelihoodScorer.max_tries
    try_idx,            \* the loop variable i of do_work_directly
    attempts,           \* how each call of fit_one_init ended, in order
    results,            \* the list results of do_work_directly
    best_res,           \* the result do_work_directly returns
    allele_tts,         \* target status of the allele being simulated, as a tts
    node_dist,          \* node.dist, the length of the simulated branch
    time_incr,          \* the argument time_incr of simulate
    time_remain,        \* the local time_remain of simulate
    applied_time,       \* sum of the waiting times of the events applied so far
    repair,             \* what the last _do_repair drew and passed to allele.indel
    sim_time,           \* the argument time of BirthDeathTreeSimulator.simulate
    max_nodes,          \* BirthDeathTreeSimulator.max_nodes
    curr_nodes,         \* BirthDeathTreeSimulator.curr_nodes
    sim_tree,           \* the tree under construction: node -> [up, dist, dead]
    call_stack,         \* pending calls of _simulate_tree: [tree, remain_time], first on top
    trees,              \* the list given to get_uniq_trees, one distance class per tree
    max_trees,          \* the argument max_trees, <<>> for None, <<k>> for k
    uniq_trees          \* the list get_uniq_trees returns

hazard_vars == <<tts, prev_tts, tt_evt, hazard, hazard_masks, hazard_away, prev_hazard_away>>
param_vars == <<target_lams, trim_long_probs, double_cut_weight>>
matrix_vars == <<matrix_wrapper, q_matrix>>
input_vars == <<topology, state_sum>>
lik_vars ==
    <<key_dicts, pt_matrix, trim_probs, ch_down_probs, down_probs, scaler, singleton_cond_prob,
      L, log_lik, node_ptr>>
indel_vars == <<trim_zero_prob, singleton, del_prob>>
engine_vars == <<leaf_state, node_ids, anc_state, model_params, engines>>
match_vars == <<indel_set_list, diff_target_tracts, sg_idx, tts_idx, matching_sgs>>
scorer_vars == <<num_inits, max_try_per_init, max_tries, try_idx, attempts, results, best_res>>
simulate_vars == <<allele_tts, node_dist, time_incr, time_remain, applied_time, repair>>
birth_death_vars == <<sim_time, max_nodes, curr_nodes, sim_tree, call_stack>>
uniq_vars == <<trees, max_trees, uniq_trees>>
other_vars ==
    <<indel_vars, engine_vars, match_vars, scorer_vars, simulate_vars, birth_death_vars,
      uniq_vars>>
vars == <<param_vars, pc, hazard_vars, matrix_vars, input_vars, lik_vars, other_vars>>

----------------------------------------------------------------------------
(* Bounds *)

NumTargets == 3
MaxLam == 2
ProbDenom == 2
MaxStates == 3
MaxNodes == 4

----------------------------------------------------------------------------
(* Fixed-point reals *)

Unit == ProbDenom * ProbDenom
One == Unit
Mul(x, y) == (x * y) \div Unit
Probs == {k * ProbDenom : k \in 0..ProbDenom}

Targets == 0..(NumTargets - 1)
DoubleCutWeights == {1, 2}
Rep(x, n) == [i \in 1..n |-> x]

RECURSIVE SumSeq(_)
SumSeq(s) == IF Len(s) = 0 THEN 0 ELSE Head(s) + SumSeq(Tail(s))

----------------------------------------------------------------------------
(* Indel algebra: target tracts and target tract reprs *)

TargetTract(min_deact, min_targ, max_targ, max_deact) ==
    [min_deact_target |-> min_deact, min_target |-> min_targ,
     max_target |-> max_targ, max_deact_target |-> max_deact]

is_left_long(tt) == tt.min_deact_target < tt.min_target
is_right_long(tt) == tt.max_target < tt.max_deact_target

AllTargetTracts ==
    {TargetTract(d0, t0, t1, d1) : d0 \in Targets, t0 \in Targets, t1 \in Targets, d1 \in Targets}

WellFormedTargetTracts ==
    {tt \in AllTargetTracts :
        /\ tt.min_target <= tt.max_target
        /\ tt.min_deact_target \in {tt.min_target - 1, tt.min_target}
        /\ tt.max_deact_target \in {tt.max_target, tt.max_target + 1}}

\* the tuples of well-formed target tracts over the targets >= k, strictly
\* ordered left to right and pairwise non-overlapping
RECURSIVE TtsFrom(_)
TtsFrom(k) ==
    {<<>>} \cup UNION {
        {<<tt>> \o rest : rest \in TtsFrom(tt.max_deact_target + 1)} :
            tt \in {x \in WellFormedTargetTracts : x.min_deact_target >= k}}

AllTts == TtsFrom(0)

DeactTargets(t) ==
    {T \in Targets : \E i \in 1..Len(t) :
        t[i].min_deact_target <= T /\ T <= t[i].max_deact_target}

\* the sorted list of the targets no target tract of t deactivates
RECURSIVE ActiveFrom(_, _)
ActiveFrom(t, k) ==
    IF k >= NumTargets THEN <<>>
    ELSE (IF k \in DeactTargets(t) THEN <<>> ELSE <<k>>) \o ActiveFrom(t, k + 1)

ActiveTargets(t) == ActiveFrom(t, 0)

----------------------------------------------------------------------------
(* get_possible_target_tracts: the one-step events from a list of active   *)
(* targets                                                                 *)

\* possible (min_deact, min_target) pairs of a target tract cut at active[j]
all_starts(active, j) ==
    {<<active[j], active[j]>>} \cup
    (IF j > 1 /\ active[j] = active[j - 1] + 1
     THEN {<<active[j - 1], active[j]>>} ELSE {})

\* possible (max_target, max_deact) pairs of a target tract cut at active[k]
all_ends(active, k) ==
    {<<active[k], active[k]>>} \cup
    (IF k < Len(active) /\ active[k + 1] = active[k] + 1
     THEN {<<active[k], active[k + 1]>>} ELSE {})

\* the events with two distinct cut targets only
get_possible_target_tracts_no_focal(active_any_targs) ==
    LET n_any_targs == Len(active_any_targs)
    IN UNION { UNION {
            {TargetTract(tt_start[1], tt_start[2], tt_end[1], tt_end[2]) :
                tt_start \in all_starts(active_any_targs, j),
                tt_end \in all_ends(active_any_targs, k)} :
            k \in (j + 1)..n_any_targs} :
        j \in 1..n_any_targs}

get_possible_target_tracts(active_any_targs) ==
    LET n_any_targs == Len(active_any_targs)
    IN UNION { UNION {
            {TargetTract(tt_start[1], tt_start[2], tt_end[1], tt_end[2]) :
                tt_start \in all_starts(active_any_targs, j),
                tt_end \in all_ends(active_any_targs, k)} :
            k \in j..n_any_targs} :
        j \in 1..n_any_targs}

\* the tts after target tract e happened in tts t: the target tracts inside
\* e's range are absorbed
ApplyTargetTract(t, e) ==
    SelectSeq(t, LAMBDA x : x.max_deact_target < e.min_deact_target)
    \o <<e>> \o
    SelectSeq(t, LAMBDA x : x.min_deact_target > e.max_deact_target)

----------------------------------------------------------------------------
(* Hazard model *)

\* the loop "for i, tt in enumerate(tts[1:])"; i is the position of tt in t
RECURSIVE MaskSections(_, _, _)
MaskSections(t, i, lists) ==
    IF i > Len(t) THEN lists
    ELSE
        LET prev == t[i - 1]
            tt == t[i]
            n == tt.min_deact_target - prev.max_deact_target - 2
            between ==
                IF prev.max_deact_target + 1 < tt.min_deact_target - 1
                THEN << <<1>> \o Rep(2, n), Rep(2, n) \o <<1>> >>
                ELSE IF prev.max_deact_target + 1 = tt.min_deact_target - 1
                THEN << <<1>>, <<1>> >>
                ELSE << <<>>, <<>> >>
            zeros == Rep(0, tt.max_deact_target - tt.min_deact_target + 1)
        IN MaskSections(t, i + 1,
                <<lists[1] \o between[1] \o zeros, lists[2] \o between[2] \o zeros>>)

\* masks where a deactivated target is still given the value 1
get_hazard_masks_deact_short(t) ==
    << [i \in 1..NumTargets |->
            IF i = 1 \/ (i - 1) \in DeactTargets(t) \/ (i - 2) \in DeactTargets(t) THEN 1 ELSE 2],
       [i \in 1..NumTargets |->
            IF i = NumTargets \/ (i - 1) \in DeactTargets(t) \/ i \in DeactTargets(t) THEN 1 ELSE 2] >>

\* masks with the left and the right list exchanged
get_hazard_masks_swapped(t) ==
    << [i \in 1..NumTargets |->
            IF (i - 1) \in DeactTargets(t) THEN 0
            ELSE IF i = NumTargets \/ i \in DeactTargets(t) THEN 1 ELSE 2],
       [i \in 1..NumTargets |->
            IF (i - 1) \in DeactTargets(t) THEN 0
            ELSE IF i = 1 \/ (i - 2) \in DeactTargets(t) THEN 1 ELSE 2] >>

\* masks that allow a long trim at every active target, the ends of the
\* barcode and the neighbours of deactivated targets included
get_hazard_masks_all_long(t) ==
    << [i \in 1..NumTargets |-> IF (i - 1) \in DeactTargets(t) THEN 0 ELSE 2],
       [i \in 1..NumTargets |-> IF (i - 1) \in DeactTargets(t) THEN 0 ELSE 2] >>

\* <<left list, right list>>: 0 = no trim at that target, 1 = only a short
\* trim, 2 = short and long trims
get_hazard_masks(t) ==
    IF Len(t) = 0
    THEN << <<1>> \o Rep(2, NumTargets - 1), Rep(2, NumTargets - 1) \o <<1>> >>
    ELSE
        LET first == t[1]
            last == t[Len(t)]
            before ==
                IF first.min_deact_target > 1
                THEN << <<1>> \o Rep(2, first.min_deact_target - 1),
                        Rep(2, first.min_deact_target - 1) \o <<1>> >>
                ELSE IF first.min_deact_target = 1
                THEN << <<1>>, <<1>> >>
                ELSE << <<>>, <<>> >>
            zeros == Rep(0, first.max_deact_target - first.min_deact_target + 1)
            middle == MaskSections(t, 2, <<before[1] \o zeros, before[2] \o zeros>>)
            n == NumTargets - last.max_deact_target - 2
            after ==
                IF last.max_deact_target < NumTargets - 2
                THEN << <<1>> \o Rep(2, n), Rep(2, n) \o <<1>> >>
                ELSE IF last.max_deact_target = NumTargets - 2
                THEN << <<1>>, <<1>> >>
                ELSE << <<>>, <<>> >>
        IN <<middle[1] \o after[1], middle[2] \o after[2]>>

\* hazard list over the targets for masks left_trimmables, right_trimmables
create_hazard_list(lams, probs, trim_left, trim_right, left_trimmables, right_trimmables) ==
    LET trim_short_left == IF trim_left THEN One - probs[1] ELSE One
        trim_short_right == IF trim_right THEN One - probs[2] ELSE One
        left_factor(i) ==
            (IF left_trimmables[i] = 1 THEN trim_short_left ELSE 0)
            + (IF left_trimmables[i] = 2 THEN One ELSE 0)
        right_factor(i) ==
            (IF right_trimmables[i] = 1 THEN trim_short_right ELSE 0)
            + (IF right_trimmables[i] = 2 THEN One ELSE 0)
    IN [i \in 1..Len(lams) |-> lams[i] * Mul(left_factor(i), right_factor(i))]

RECURSIVE cumsum(_)
cumsum(s) ==
    IF Len(s) = 0 THEN <<>>
    ELSE LET front == cumsum(SubSeq(s, 1, Len(s) - 1))
         IN Append(front, (IF Len(front) = 0 THEN 0 ELSE front[Len(front)]) + s[Len(s)])

\* the fold without the cumulative sum of the left hazards
fold_hazard_away_no_cumsum(lams, probs, m) ==
    LET focal_hazards == create_hazard_list(lams, probs, TRUE, TRUE, m[1], m[2])
        left_hazards ==
            SubSeq(create_hazard_list(lams, probs, TRUE, FALSE, m[1], m[2]), 1, Len(lams) - 1)
        right_hazards ==
            SubSeq(create_hazard_list(lams, probs, FALSE, TRUE, m[1], m[2]), 2, Len(lams))
        inter_target_hazards ==
            [k \in 1..Len(left_hazards) |-> Mul(left_hazards[k], right_hazards[k])]
    IN SumSeq(focal_hazards) + SumSeq(inter_target_hazards)

\* the fold of the hazard lists into the hazard away from a tts with masks m
fold_hazard_away(lams, probs, m) ==
    LET focal_hazards == create_hazard_list(lams, probs, TRUE, TRUE, m[1], m[2])
        left_hazards ==
            SubSeq(create_hazard_list(lams, probs, TRUE, FALSE, m[1], m[2]), 1, Len(lams) - 1)
        right_hazards ==
            SubSeq(create_hazard_list(lams, probs, FALSE, TRUE, m[1], m[2]), 2, Len(lams))
        left_cum_hazards == cumsum(left_hazards)
        inter_target_hazards ==
            [k \in 1..Len(left_cum_hazards) |-> Mul(left_cum_hazards[k], right_hazards[k])]
    IN SumSeq(focal_hazards) + SumSeq(inter_target_hazards)

\* the hazard away from tts t
create_hazard_away_nodes(lams, probs, t) ==
    LET m == get_hazard_masks(t)
    IN fold_hazard_away(lams, probs, m)

\* the hazard with the two branches of each trim probability exchanged
create_hazard_nodes_swapped(lams, probs, e) ==
    LET lambda_part ==
            lams[e.min_target + 1]
            * (IF e.min_target # e.max_target THEN lams[e.max_target + 1] ELSE 1)
        left_trim_prob == IF is_left_long(e) THEN One - probs[1] ELSE probs[1]
        right_trim_prob == IF is_right_long(e) THEN One - probs[2] ELSE probs[2]
    IN lambda_part * Mul(left_trim_prob, right_trim_prob)

\* the hazard of target tract event e
create_hazard_nodes(lams, probs, e) ==
    LET lambda_part ==
            lams[e.min_target + 1]
            * (IF e.min_target # e.max_target THEN lams[e.max_target + 1] ELSE 1)
        left_trim_prob == IF is_left_long(e) THEN probs[1] ELSE One - probs[1]
        right_trim_prob == IF is_right_long(e) THEN probs[2] ELSE One - probs[2]
    IN lambda_part * Mul(left_trim_prob, right_trim_prob)

\* the sum of the hazards of a set of target tract events
RECURSIVE SumHazards(_, _, _)
SumHazards(lams, probs, evts) ==
    IF evts = {} THEN 0
    ELSE LET e == CHOOSE x \in evts : TRUE
         IN create_hazard_nodes(lams, probs, e) + SumHazards(lams, probs, evts \ {e})

----------------------------------------------------------------------------
(* The hazard computations as a machine: a tts advances by one target      *)
(* tract at a time, and the hazards are evaluated at it                    *)

NoTract == TargetTract(0, 0, 0, 0)
NoWrapper == [key_dict |-> <<>>, matrix_dict |-> <<>>, num_likely_states |-> 0]

\* no topology is being evaluated
NoLikelihood ==
    /\ topology = <<>>
    /\ state_sum = <<>>
    /\ key_dicts = <<>>
    /\ pt_matrix = <<>>
    /\ trim_probs = <<>>
    /\ ch_down_probs = <<>>
    /\ down_probs = <<>>
    /\ scaler = <<>>
    /\ singleton_cond_prob = <<>>
    /\ L = <<>>
    /\ log_lik = <<>>
    /\ node_ptr = 0

NoIndel ==
    /\ trim_zero_prob = <<>>
    /\ singleton = <<>>
    /\ del_prob = <<>>

NoEngine ==
    /\ leaf_state = <<>>
    /\ node_ids = <<>>
    /\ anc_state = <<>>
    /\ model_params = <<>>
    /\ engines = <<>>

NoMatch ==
    /\ indel_set_list = <<>>
    /\ diff_target_tracts = <<>>
    /\ sg_idx = 0
    /\ tts_idx = 0
    /\ matching_sgs = <<>>

NoScorer ==
    /\ num_inits = 0
    /\ max_try_per_init = 0
    /\ max_tries = 0
    /\ try_idx = 0
    /\ attempts = <<>>
    /\ results = <<>>
    /\ best_res = <<>>

NoSimulate ==
    /\ allele_tts = <<>>
    /\ node_dist = 0
    /\ time_incr = 0
    /\ time_remain = 0
    /\ applied_time = 0
    /\ repair = <<>>

NoBirthDeath ==
    /\ sim_time = 0
    /\ max_nodes = 0
    /\ curr_nodes = 0
    /\ sim_tree = <<>>
    /\ call_stack = <<>>

NoUniq ==
    /\ trees = <<>>
    /\ max_trees = <<>>
    /\ uniq_trees = <<>>

\* the experiment drivers are idle
NoDrivers == NoScorer /\ NoSimulate /\ NoBirthDeath /\ NoUniq

\* nothing but the likelihood engine is in use
NoOther == NoIndel /\ NoEngine /\ NoMatch /\ NoDrivers

\* the hazard model and the matrix assembler are idle
NoHazard ==
    /\ target_lams = Rep(1, NumTargets)
    /\ trim_long_probs = <<0, 0>>
    /\ double_cut_weight = 1
    /\ tts = <<>>
    /\ prev_tts = <<>>
    /\ tt_evt = NoTract
    /\ hazard = 0
    /\ hazard_masks = << <<>>, <<>> >>
    /\ hazard_away = 0
    /\ prev_hazard_away = 0
    /\ matrix_wrapper = NoWrapper
    /\ q_matrix = <<>>

ParamInit ==
    /\ target_lams \in [1..NumTargets -> 1..MaxLam]
    /\ trim_long_probs \in Probs \X Probs
    /\ double_cut_weight \in DoubleCutWeights

HazardInit ==
    /\ ParamInit
    /\ pc = "init"
    /\ tts = <<>>
    /\ prev_tts = <<>>
    /\ tt_evt = NoTract
    /\ hazard = 0
    /\ hazard_masks = get_hazard_masks(<<>>)
    /\ hazard_away = create_hazard_away_nodes(target_lams, trim_long_probs, <<>>)
    /\ prev_hazard_away = 0
    /\ matrix_wrapper = NoWrapper
    /\ q_matrix = <<>>
    /\ NoLikelihood
    /\ NoOther

\* one more target tract event happens in tts: the hazard of the event
\* (get_hazard), and the masks and the hazard away of the tts it leads to
AddTargetTract ==
    /\ \E e \in get_possible_target_tracts(ActiveTargets(tts)) :
        /\ tt_evt' = e
        /\ hazard' = create_hazard_nodes(target_lams, trim_long_probs, e)
        /\ prev_tts' = tts
        /\ tts' = ApplyTargetTract(tts, e)
    /\ prev_hazard_away' = hazard_away
    /\ hazard_masks' = get_hazard_masks(tts')
    /\ hazard_away' = create_hazard_away_nodes(target_lams, trim_long_probs, tts')
    /\ pc' = "added"
    /\ UNCHANGED <<param_vars, other_vars, matrix_vars, input_vars, lik_vars>>

HazardNext == AddTargetTract

SpecHazard == HazardInit /\ [][HazardNext]_vars

----------------------------------------------------------------------------
(* Claims on the hazard model, checked under SpecHazard *)

left_mask(a) == hazard_masks[1][a + 1]
right_mask(a) == hazard_masks[2][a + 1]
IsActive(t, a) == a \in Targets /\ a \notin DeactTargets(t)

\* C3 (as claimed): the hazard of a target tract event with min_cut = a and
\* max_cut = b is lam[a] * (lam[b] if b != a) * (pL or 1 - pL) * (pR or 1 - pR)
\* times the double cut weight w when b != a.
C3_HazardCarriesDoubleCutWeight ==
    pc = "added" =>
        hazard =
            target_lams[tt_evt.min_target + 1]
            * (IF tt_evt.max_target # tt_evt.min_target
               THEN target_lams[tt_evt.max_target + 1] ELSE 1)
            * Mul(IF is_left_long(tt_evt) THEN trim_long_probs[1] ELSE One - trim_long_probs[1],
                  IF is_right_long(tt_evt) THEN trim_long_probs[2] ELSE One - trim_long_probs[2])
            * (IF tt_evt.max_target # tt_evt.min_target THEN double_cut_weight ELSE 1)

\* C4: the hazard away from a tts, computed by masking the targets and folding
\* the left-cumulative and right hazard lists, equals the sum of the event
\* hazards over the events get_possible_target_tracts enumerates from the
\* active targets of the tts.
C4_HazardAwayIsSumOfEventHazards ==
    hazard_away =
        SumHazards(target_lams, trim_long_probs,
                   get_possible_target_tracts(ActiveTargets(tts)))

\* C4 witness: a tts whose active targets 0 and 2 lie on both sides of a
\* deactivated target, with a positive hazard away.
C4_Witness ==
    /\ pc = "added"
    /\ DeactTargets(tts) = {1}
    /\ hazard_away > 0

\* C5 (as claimed): adding a target tract to a tts strictly decreases the
\* hazard away, for all trim_long_probs in [0, 1].
C5_HazardAwayStrictlyDecreases ==
    pc = "added" => hazard_away < prev_hazard_away

\* C5 (amended): adding a target tract to a tts never increases the hazard
\* away, and strictly decreases it when both trim_long_probs are below 1.
C5_HazardAwayDecreases ==
    pc = "added" =>
        /\ hazard_away <= prev_hazard_away
        /\ (trim_long_probs[1] < One /\ trim_long_probs[2] < One
                => hazard_away < prev_hazard_away)

\* C5 witness: a target tract was added to a tts that already held one, with
\* both trim_long_probs below 1.
C5_Witness ==
    /\ pc = "added"
    /\ Len(prev_tts) >= 1
    /\ trim_long_probs[1] < One /\ trim_long_probs[2] < One
    /\ hazard_away < prev_hazard_away

\* C6 (as claimed): a long left trim at target a is admissible only when
\* target a - 1 is deactivated, and a long right trim at target b only when
\* target b + 1 is deactivated.
C6_LongTrimNeedsDeactivatedNeighbour ==
    \A a \in Targets :
        /\ left_mask(a) = 2 => (a - 1) \in DeactTargets(tts)
        /\ right_mask(a) = 2 => (a + 1) \in DeactTargets(tts)

\* C6 (amended): a long left trim at target a is admissible only when target
\* a - 1 exists and is still active, and a long right trim at target b only
\* when target b + 1 exists and is still active; every long event that
\* get_possible_target_tracts returns deactivates such an active neighbour.
C6_LongTrimNeedsActiveNeighbour ==
    /\ \A a \in Targets :
        /\ left_mask(a) = 2 => IsActive(tts, a) /\ IsActive(tts, a - 1)
        /\ right_mask(a) = 2 => IsActive(tts, a) /\ IsActive(tts, a + 1)
    /\ \A e \in get_possible_target_tracts(ActiveTargets(tts)) :
        /\ is_left_long(e) => left_mask(e.min_target) = 2
        /\ is_right_long(e) => right_mask(e.max_target) = 2

\* C6 witness: after a target tract was added, some target still admits a
\* long left trim and some target a long right trim.
C6_Witness ==
    /\ pc = "added"
    /\ Len(tts) >= 1
    /\ \E a \in Targets : left_mask(a) = 2
    /\ \E b \in Targets : right_mask(b) = 2

\* C21: for every valid tts the two hazard masks have length NumTargets and
\* entries in {0, 1, 2}; both are 0 exactly at the deactivated targets; the
\* left mask is 1 at target 0 and at every active target whose left
\* neighbour is deactivated and 2 at every other active target; the right
\* mask is 1 at the last target and at every active target whose right
\* neighbour is deactivated and 2 at every other active target.
C21_HazardMasksShape ==
    /\ Len(hazard_masks[1]) = NumTargets
    /\ Len(hazard_masks[2]) = NumTargets
    /\ \A a \in Targets :
        LET deact == DeactTargets(tts)
        IN /\ left_mask(a) =
                (IF a \in deact THEN 0
                 ELSE IF a = 0 \/ (a - 1) \in deact THEN 1 ELSE 2)
           /\ right_mask(a) =
                (IF a \in deact THEN 0
                 ELSE IF a = NumTargets - 1 \/ (a + 1) \in deact THEN 1 ELSE 2)

\* C21 witness: a tts with a deactivated target between two active ones,
\* both of which admit short trims only towards it
C21_Witness ==
    /\ pc = "added"
    /\ \E a \in Targets :
        /\ a \in DeactTargets(tts)
        /\ IsActive(tts, a - 1) /\ right_mask(a - 1) = 1
        /\ IsActive(tts, a + 1) /\ left_mask(a + 1) = 1
        /\ left_mask(a) = 0 /\ right_mask(a) = 0

\* C22: the events the hazard masks permit (a cut at active targets a <= b,
\* a long left trim where the left mask of a is 2, a long right trim where
\* the right mask of b is 2) are exactly the events
\* get_possible_target_tracts returns for the active targets of the tts, and
\* every returned event has min_deact <= min_cut <= max_cut <= max_deact
\* with all four targets active.
C22_MasksAndEnumerationAgree ==
    LET permitted ==
            {TargetTract(a - ll, a, b, b + rl) :
                a \in Targets, b \in Targets, ll \in {0, 1}, rl \in {0, 1}}
        by_masks ==
            {e \in {x \in permitted : x.min_target <= x.max_target} :
                /\ left_mask(e.min_target) >= 1 + (e.min_target - e.min_deact_target)
                /\ right_mask(e.max_target) >= 1 + (e.max_deact_target - e.max_target)}
        returned == get_possible_target_tracts(ActiveTargets(tts))
    IN /\ by_masks = returned
       /\ \A e \in returned :
            /\ e.min_deact_target <= e.min_target
            /\ e.min_target <= e.max_target
            /\ e.max_target <= e.max_deact_target
            /\ IsActive(tts, e.min_deact_target) /\ IsActive(tts, e.min_target)
            /\ IsActive(tts, e.max_target) /\ IsActive(tts, e.max_deact_target)

\* C22 witness: a tts with a deactivated target from which an event cutting
\* on both sides of that target is possible, and no long trim is
C22_Witness ==
    /\ pc = "added"
    /\ \E e \in get_possible_target_tracts(ActiveTargets(tts)) :
        \E a \in DeactTargets(tts) : e.min_target < a /\ a < e.max_target
    /\ \A e \in get_possible_target_tracts(ActiveTargets(tts)) :
        ~is_left_long(e) /\ ~is_right_long(e)

----------------------------------------------------------------------------
(* Transition matrix assembly *)

\* the running total haz_to_likely over the entries end_tts -> tt_evt of a row
RECURSIVE haz_to_likely_sum(_, _, _, _)
haz_to_likely_sum(lams, probs, matrix_row, ends) ==
    IF ends = {} THEN 0
    ELSE LET end_tts == CHOOSE x \in ends : TRUE
         IN create_hazard_nodes(lams, probs, matrix_row[end_tts])
            + haz_to_likely_sum(lams, probs, matrix_row, ends \ {end_tts})

\* the (row, column, value) triples of the row of start_tts, with the mass to
\* the unlikely state left at the whole hazard away
row_index_vals_keep_away(lams, probs, w, start_tts) ==
    LET matrix_row == w.matrix_dict[start_tts]
        start_key == w.key_dict[start_tts]
        haz_away == create_hazard_away_nodes(lams, probs, start_tts)
    IN {<<start_key, start_key, -haz_away>>}
       \cup {<<start_key, w.key_dict[end_tts],
               create_hazard_nodes(lams, probs, matrix_row[end_tts])>> :
                end_tts \in DOMAIN matrix_row}
       \cup {<<start_key, w.num_likely_states, haz_away>>}

\* the (row, column, value) triples the loop over matrix_dict appends for the
\* row of start_tts
row_index_vals(lams, probs, w, start_tts) ==
    LET matrix_row == w.matrix_dict[start_tts]
        start_key == w.key_dict[start_tts]
        unlikely_key == w.num_likely_states
        haz_away == create_hazard_away_nodes(lams, probs, start_tts)
        haz_to_likely == haz_to_likely_sum(lams, probs, matrix_row, DOMAIN matrix_row)
    IN {<<start_key, start_key, -haz_away>>}
       \cup {<<start_key, w.key_dict[end_tts],
               create_hazard_nodes(lams, probs, matrix_row[end_tts])>> :
                end_tts \in DOMAIN matrix_row}
       \cup {<<start_key, unlikely_key, haz_away - haz_to_likely>>}

\* tf.sparse_to_dense: the n x n matrix (rows and columns 0..n-1) holding the
\* given triples and default_value elsewhere
sparse_to_dense(index_vals, n, default_value) ==
    [i \in 0..(n - 1) |-> [j \in 0..(n - 1) |->
        IF \E tup \in index_vals : tup[1] = i /\ tup[2] = j
        THEN (CHOOSE tup \in index_vals : tup[1] = i /\ tup[2] = j)[3]
        ELSE default_value]]

create_transition_matrix(lams, probs, w) ==
    LET index_vals ==
            UNION {row_index_vals(lams, probs, w, start_tts) :
                    start_tts \in DOMAIN w.matrix_dict}
    IN sparse_to_dense(index_vals, w.num_likely_states + 1, 0)

----------------------------------------------------------------------------
(* The assembly as a machine: a skeleton is grown one transition at a      *)
(* time from a first state, then the matrix is assembled from it           *)

EmptyRow == [x \in {} |-> NoTract]

QInit ==
    /\ target_lams \in [1..NumTargets -> 1..MaxLam]
    /\ trim_long_probs \in Probs \X Probs
    /\ double_cut_weight = 1
    /\ pc = "skeleton"
    /\ tts = <<>>
    /\ prev_tts = <<>>
    /\ tt_evt = NoTract
    /\ hazard = 0
    /\ hazard_masks = << <<>>, <<>> >>
    /\ hazard_away = 0
    /\ prev_hazard_away = 0
    /\ \E t0 \in AllTts :
        matrix_wrapper = [key_dict |-> (t0 :> 0), matrix_dict |-> (t0 :> EmptyRow),
                          num_likely_states |-> 1]
    /\ q_matrix = <<>>
    /\ NoLikelihood
    /\ NoOther

\* the skeleton gains the transition from start_tts by the event e, and the
\* state it leads to when that state is new
AddTransition ==
    /\ pc = "skeleton"
    /\ \E start_tts \in DOMAIN matrix_wrapper.key_dict :
       \E e \in get_possible_target_tracts(ActiveTargets(start_tts)) :
        LET end_tts == ApplyTargetTract(start_tts, e)
            known == end_tts \in DOMAIN matrix_wrapper.key_dict
            n == matrix_wrapper.num_likely_states
            row == matrix_wrapper.matrix_dict[start_tts]
        IN /\ end_tts \notin DOMAIN row
           /\ known \/ n < MaxStates
           /\ matrix_wrapper' =
                [key_dict |->
                    IF known THEN matrix_wrapper.key_dict
                    ELSE matrix_wrapper.key_dict @@ (end_tts :> n),
                 matrix_dict |->
                    [t \in DOMAIN matrix_wrapper.matrix_dict \cup {end_tts} |->
                        IF t = start_tts THEN row @@ (end_tts :> e)
                        ELSE IF t \in DOMAIN matrix_wrapper.matrix_dict
                        THEN matrix_wrapper.matrix_dict[t]
                        ELSE EmptyRow],
                 num_likely_states |-> IF known THEN n ELSE n + 1]
    /\ UNCHANGED <<param_vars, other_vars, pc, hazard_vars, q_matrix, input_vars, lik_vars>>

\* _create_transition_matrix
CreateTransitionMatrix ==
    /\ pc = "skeleton"
    /\ q_matrix' = create_transition_matrix(target_lams, trim_long_probs, matrix_wrapper)
    /\ pc' = "assembled"
    /\ UNCHANGED <<param_vars, other_vars, hazard_vars, matrix_wrapper, input_vars, lik_vars>>

QNext == AddTransition \/ CreateTransitionMatrix

SpecQ == QInit /\ [][QNext]_vars

----------------------------------------------------------------------------
(* Claims on the assembled matrix, checked under SpecQ *)

RECURSIVE SumRow(_, _)
SumRow(row, cols) ==
    IF cols = {} THEN 0
    ELSE LET j == CHOOSE x \in cols : TRUE IN row[j] + SumRow(row, cols \ {j})

\* C1: the assembled Q has shape (S+1) x (S+1) and every row sums to 0; the
\* row of start state t holds -hazard_away(t) on the diagonal, h(e) at the
\* index of each end state of the row, hazard_away(t) minus the sum of those
\* h(e) at the unlikely index S, and 0 elsewhere; the unlikely row is all zeros.
C1_RateMatrixRowsSumToZero ==
    pc = "assembled" =>
        LET S == matrix_wrapper.num_likely_states
            key == matrix_wrapper.key_dict
        IN /\ DOMAIN q_matrix = 0..S
           /\ \A i \in 0..S : DOMAIN q_matrix[i] = 0..S
           /\ \A i \in 0..S : SumRow(q_matrix[i], 0..S) = 0
           /\ \A j \in 0..S : q_matrix[S][j] = 0
           /\ \A t \in DOMAIN matrix_wrapper.matrix_dict :
                LET i == key[t]
                    row == matrix_wrapper.matrix_dict[t]
                    away == create_hazard_away_nodes(target_lams, trim_long_probs, t)
                    likely == haz_to_likely_sum(target_lams, trim_long_probs, row, DOMAIN row)
                IN /\ q_matrix[i][i] = -away
                   /\ \A u \in DOMAIN row :
                        q_matrix[i][key[u]] =
                            create_hazard_nodes(target_lams, trim_long_probs, row[u])
                   /\ q_matrix[i][S] = away - likely
                   /\ \A j \in 0..(S - 1) :
                        (j # i /\ ~\E u \in DOMAIN row : key[u] = j) => q_matrix[i][j] = 0

\* C1 witness: a matrix assembled from a skeleton of three states in which a
\* row holds two transitions and the hazards are not all zero.
C1_Witness ==
    /\ pc = "assembled"
    /\ matrix_wrapper.num_likely_states = 3
    /\ \E t \in DOMAIN matrix_wrapper.matrix_dict :
        /\ Cardinality(DOMAIN matrix_wrapper.matrix_dict[t]) = 2
        /\ \A u \in DOMAIN matrix_wrapper.matrix_dict[t] :
            q_matrix[matrix_wrapper.key_dict[t]][matrix_wrapper.key_dict[u]] > 0

\* C2: every off-diagonal entry of the assembled Q is >= 0; in particular the
\* mass Q[i, S] into the unlikely state of a row of distinct admissible events
\* is never negative.
C2_OffDiagonalNonNegative ==
    pc = "assembled" =>
        \A i \in DOMAIN q_matrix : \A j \in DOMAIN q_matrix[i] :
            i # j => q_matrix[i][j] >= 0

\* C2 witness: a row whose events take the whole hazard away, so that the mass
\* into the unlikely state is exactly 0, next to a positive hazard away.
C2_Witness ==
    /\ pc = "assembled"
    /\ \E t \in DOMAIN matrix_wrapper.matrix_dict :
        LET i == matrix_wrapper.key_dict[t]
        IN /\ q_matrix[i][i] < 0
           /\ q_matrix[i][matrix_wrapper.num_likely_states] = 0
           /\ DOMAIN matrix_wrapper.matrix_dict[t] # {}

----------------------------------------------------------------------------
(* Felsenstein pruner: inputs *)

\* the tts that occur in the state sums of the trees
LikTts == {<<>>, <<TargetTract(0, 0, 0, 0)>>, <<TargetTract(1, 1, 1, 1)>>}

\* position of a tts in the order in which a skeleton enumerates states
TtsRank(t) == IF t = <<>> THEN 0 ELSE t[1].min_target + 1

\* parent vectors of the trees of 1..MaxNodes nodes, nodes numbered in postorder
Topologies ==
    {p \in UNION {[1..n -> 0..n] : n \in 1..MaxNodes} :
        /\ p[Len(p)] = 0
        /\ \A i \in 1..(Len(p) - 1) :
            /\ p[i] > i
            /\ \A k \in (i + 1)..(p[i] - 1) : p[k] <= p[i]}

root_node_id == Len(topology)
children(v) == {c \in 1..Len(topology) : topology[c] = v}
is_leaf(v) == children(v) = {}
is_root(v) == v = root_node_id

\* the state sums a tree can be annotated with: one tts at a leaf, the
\* unmodified barcode at a root that has children
StateSums(p) ==
    {ss \in [1..Len(p) -> (SUBSET LikTts) \ {{}}] :
        /\ Len(p) > 1 => ss[Len(p)] = {<<>>}
        /\ \A v \in 1..Len(p) :
            (\A c \in 1..Len(p) : p[c] # v) => Cardinality(ss[v]) = 1}

\* the numberings a skeleton can give to the set of states D
KeyDicts(D) ==
    {[t \in D |-> Cardinality({u \in D : TtsRank(u) < TtsRank(t)})],
     [t \in D |-> Cardinality({u \in D : TtsRank(u) > TtsRank(t)})]}

num_likely_states(key_dict) == Cardinality(DOMAIN key_dict)

\* the probability matrices exp(Qt) of a branch whose skeleton has n - 1
\* likely states: t = 0 (kind 0), and an upper triangular stochastic matrix
BranchKinds == {0, 1}
branch_prob_matrix(n, kind) ==
    [i \in 1..n |-> [j \in 1..n |->
        IF kind = 0 \/ i = n THEN (IF i = j THEN One ELSE 0)
        ELSE IF j = i THEN ProbDenom
        ELSE IF j = i + 1 /\ j < n THEN 1
        ELSE IF j = n THEN One - ProbDenom - (IF i + 1 < n THEN 1 ELSE 0)
        ELSE 0]]

----------------------------------------------------------------------------
(* Felsenstein pruner: vectors with a common denominator *)

RECURSIVE Gcd(_, _)
Gcd(a, b) == IF b = 0 THEN a ELSE Gcd(b, a % b)

RECURSIVE GcdSeq(_)
GcdSeq(s) == IF Len(s) = 0 THEN 0 ELSE Gcd(Head(s), GcdSeq(Tail(s)))

\* s divided by g, entry by entry
RECURSIVE DivSeq(_, _)
DivSeq(s, g) == IF Len(s) = 0 THEN <<>> ELSE <<Head(s) \div g>> \o DivSeq(Tail(s), g)

\* the vector vals / den, in lowest terms
Vec(vals, den) ==
    LET g == Gcd(den, GcdSeq(vals))
    IN [vals |-> DivSeq(vals, g), den |-> den \div g]

\* the number num / den, in lowest terms
Ratio(num, den) ==
    LET g == Gcd(num, den)
    IN [num |-> num \div g, den |-> den \div g]

RECURSIVE MaxOf(_)
MaxOf(s) ==
    IF Len(s) = 0 THEN 0
    ELSE LET m == MaxOf(Tail(s)) IN IF Head(s) > m THEN Head(s) ELSE m

\* the node ids of set cs in increasing order
RECURSIVE SortedSeq(_)
SortedSeq(cs) ==
    IF cs = {} THEN <<>>
    ELSE LET c == CHOOSE x \in cs : \A y \in cs : x <= y
         IN <<c>> \o SortedSeq(cs \ {c})

----------------------------------------------------------------------------
(* Felsenstein pruner: the steps of the recursion *)

\* a leaf's vector with the 1 at index 0 whatever the observed tts
leaf_likelihood_first(key_dict, tts_list) ==
    Vec([i \in 1..(num_likely_states(key_dict) + 1) |-> IF i = 1 THEN 1 ELSE 0], 1)

\* L of a leaf whose state sum is tts_list
leaf_likelihood(key_dict, tts_list) ==
    LET tts_key == key_dict[CHOOSE t \in tts_list : TRUE]
    IN Vec([i \in 1..(num_likely_states(key_dict) + 1) |->
                IF i = tts_key + 1 THEN 1 ELSE 0], 1)

\* the probabilities of the unmasked trims of a branch: 0 and 1 / ProbDenom
UnmaskedTrimProbs == {ProbDenom, One}

\* the target tracts of child_tts that node_tts does not have
target_tract_repr_diff(node_tts, child_tts) ==
    {child_tts[k] : k \in 1..Len(child_tts)} \ {node_tts[k] : k \in 1..Len(node_tts)}

\* the product of n probabilities equal to prob
RECURSIVE PowProb(_, _)
PowProb(prob, n) == IF n = 0 THEN One ELSE Mul(prob, PowProb(prob, n - 1))

\* probability of the trims that turn node_tts into child_tts, each
\* singleton of the child's anc_state having conditional probability trim_prob
get_prob_unmasked_trims(node_tts, child_tts, trim_prob) ==
    PowProb(trim_prob, Cardinality(target_tract_repr_diff(node_tts, child_tts)))

\* matrix of conditional probabilities of each trim, in the child's numbering
get_trim_probs(ch_key, node_tts_list, child_tts_list, trim_prob) ==
    LET n == num_likely_states(ch_key) + 1
        pairs(i, j) ==
            {pr \in node_tts_list \X child_tts_list :
                ch_key[pr[1]] + 1 = i /\ ch_key[pr[2]] + 1 = j}
    IN [i \in 1..n |-> [j \in 1..n |->
            IF pairs(i, j) = {} THEN One
            ELSE LET pr == CHOOSE x \in pairs(i, j) : TRUE
                 IN get_prob_unmasked_trims(pr[1], pr[2], trim_prob)]]

\* (pt_matrix Hadamard trim_probs) . L[child]
ch_ordered_down_probs(pt, trim, L_child) ==
    LET n == Len(pt)
    IN Vec([i \in 1..n |->
                SumSeq([j \in 1..n |-> pt[i][j] * trim[i][j] * L_child.vals[j]])],
           Unit * One * L_child.den)

\* the reordering that copies every state numbered by both skeletons
reorder_likelihoods_all_states(vec_lik, tts_list, node_key, ch_key) ==
    LET both == DOMAIN node_key \cap DOMAIN ch_key
    IN Vec([i \in 1..(num_likely_states(node_key) + 1) |->
                IF \E t \in both : node_key[t] + 1 = i
                THEN vec_lik.vals[ch_key[CHOOSE t \in both : node_key[t] + 1 = i] + 1]
                ELSE 0],
           vec_lik.den)

\* the reordering that reads vec_lik at the node's own index of each tts
reorder_likelihoods_same_index(vec_lik, tts_list, node_key, ch_key) ==
    Vec([i \in 1..(num_likely_states(node_key) + 1) |->
            IF (\E t \in tts_list : node_key[t] + 1 = i) /\ i <= Len(vec_lik.vals)
            THEN vec_lik.vals[i]
            ELSE 0],
        vec_lik.den)

\* vec_lik reordered from the child's numbering to the node's numbering
reorder_likelihoods(vec_lik, tts_list, node_key, ch_key) ==
    Vec([i \in 1..(num_likely_states(node_key) + 1) |->
            IF \E t \in tts_list : node_key[t] + 1 = i
            THEN vec_lik.vals[ch_key[CHOOSE t \in tts_list : node_key[t] + 1 = i] + 1]
            ELSE 0],
        vec_lik.den)

\* the root's factor read at index 0 of the child's vector
root_down_prob_first(vec_lik, ch_key) ==
    Vec(<<vec_lik.vals[1]>>, vec_lik.den)

\* the root's factor from a child: the entry of the unmodified barcode
root_down_prob(vec_lik, ch_key) ==
    LET ch_id == ch_key[<<>>]
    IN Vec(<<vec_lik.vals[ch_id + 1]>>, vec_lik.den)

\* elementwise product of the vectors of the non-empty sequence downs
RECURSIVE multiply_down_probs(_)
multiply_down_probs(downs) ==
    IF Len(downs) = 1 THEN downs[1]
    ELSE LET rest == multiply_down_probs(Tail(downs))
             first == downs[1]
         IN Vec([i \in 1..Len(first.vals) |-> first.vals[i] * rest.vals[i]],
                first.den * rest.den)

\* the vectors downs[c] of the children cs, in the order of the node ids
child_list(cs, downs) ==
    LET ids == SortedSeq(cs) IN [k \in 1..Len(ids) |-> downs[ids[k]]]

\* the accumulator left as it was
add_log_skip(acc, x) == acc

\* log_lik += log(x), on the exponentials
add_log(acc, x) == Ratio(acc.num * x.num, acc.den * x.den)

\* f with the entries of g added or replaced
Extend(f, g) ==
    [u \in DOMAIN f \cup DOMAIN g |-> IF u \in DOMAIN g THEN g[u] ELSE f[u]]

----------------------------------------------------------------------------
(* Felsenstein pruner: get_likelihood as a traversal *)

LikInit ==
    /\ target_lams = Rep(1, NumTargets)
    /\ trim_long_probs = <<0, 0>>
    /\ double_cut_weight = 1
    /\ pc = "traverse"
    /\ tts = <<>>
    /\ prev_tts = <<>>
    /\ tt_evt = NoTract
    /\ hazard = 0
    /\ hazard_masks = << <<>>, <<>> >>
    /\ hazard_away = 0
    /\ prev_hazard_away = 0
    /\ matrix_wrapper = NoWrapper
    /\ q_matrix = <<>>
    /\ topology \in Topologies
    /\ state_sum \in StateSums(topology)
    /\ key_dicts = <<>>
    /\ pt_matrix = <<>>
    /\ trim_probs = <<>>
    /\ ch_down_probs = <<>>
    /\ down_probs = <<>>
    /\ scaler = <<>>
    /\ singleton_cond_prob = <<>>
    /\ L = <<>>
    /\ log_lik = <<Ratio(1, 1)>>
    /\ node_ptr = 1
    /\ NoOther

\* the loop body for a leaf
VisitLeaf ==
    /\ pc = "traverse"
    /\ node_ptr <= Len(topology)
    /\ is_leaf(node_ptr)
    /\ \E key_dict \in KeyDicts(state_sum[node_ptr]
                                \cup (IF is_root(node_ptr) THEN {<<>>}
                                      ELSE state_sum[topology[node_ptr]])) :
        /\ key_dicts' = Append(key_dicts, key_dict)
        /\ L' = Append(L, leaf_likelihood(key_dict, state_sum[node_ptr]))
    /\ node_ptr' = node_ptr + 1
    /\ UNCHANGED <<param_vars, other_vars, pc, hazard_vars, matrix_vars, input_vars>>
    /\ UNCHANGED <<pt_matrix, trim_probs, ch_down_probs, down_probs, scaler, log_lik,
                   singleton_cond_prob>>

\* the loop body for an internal node: every child is combined, then L is rescaled
CombineChildren ==
    /\ pc = "traverse"
    /\ node_ptr <= Len(topology)
    /\ ~is_leaf(node_ptr)
    /\ LET node == node_ptr
           chs == children(node)
       IN \E node_key \in (IF is_root(node) THEN {<<>>}
                           ELSE KeyDicts(state_sum[node] \cup state_sum[topology[node]])),
             kinds \in [chs -> BranchKinds],
             tps \in [chs -> UnmaskedTrimProbs] :
          \E new_trim \in {[c \in chs |->
                  get_trim_probs(key_dicts[c], state_sum[node], state_sum[c], tps[c])]},
             new_pt \in {[c \in chs |->
                  branch_prob_matrix(num_likely_states(key_dicts[c]) + 1, kinds[c])]} :
          \E new_ch \in {[c \in chs |->
                  ch_ordered_down_probs(new_pt[c], new_trim[c], L[c])]} :
          \E new_down \in {[c \in chs |->
                  IF is_root(node) THEN root_down_prob(new_ch[c], key_dicts[c])
                  ELSE reorder_likelihoods(new_ch[c], state_sum[node], node_key,
                                           key_dicts[c])]} :
          \E product \in {multiply_down_probs(child_list(chs, new_down))} :
          \E new_scaler \in {MaxOf(product.vals)} :
             IF \/ ~is_root(node) /\ \E c \in chs : MaxOf(new_down[c].vals) = 0
                \/ new_scaler = 0
             THEN /\ pc' = "error"
                  /\ UNCHANGED lik_vars
             ELSE /\ pc' = pc
                  /\ key_dicts' = Append(key_dicts, node_key)
                  /\ trim_probs' = Extend(trim_probs, new_trim)
                  /\ pt_matrix' = Extend(pt_matrix, new_pt)
                  /\ ch_down_probs' = Extend(ch_down_probs, new_ch)
                  /\ down_probs' = Extend(down_probs, new_down)
                  /\ scaler' = Ratio(new_scaler, product.den)
                  /\ singleton_cond_prob' = Extend(singleton_cond_prob, tps)
                  /\ L' = Append(L, Vec(product.vals, new_scaler))
                  /\ log_lik' = <<add_log(log_lik[1], Ratio(new_scaler, product.den))>>
                  /\ node_ptr' = node + 1
    /\ UNCHANGED <<param_vars, other_vars, hazard_vars, matrix_vars, input_vars>>

\* after the loop: log_lik += log(L[root])
AddRootLikelihood ==
    /\ pc = "traverse"
    /\ node_ptr = Len(topology) + 1
    /\ log_lik' = [i \in 1..Len(L[root_node_id].vals) |->
                      add_log(log_lik[1], Ratio(L[root_node_id].vals[i], L[root_node_id].den))]
    /\ pc' = "done"
    /\ UNCHANGED <<param_vars, other_vars, hazard_vars, matrix_vars, input_vars>>
    /\ UNCHANGED <<key_dicts, pt_matrix, trim_probs, ch_down_probs, down_probs, scaler, L,
                   node_ptr, singleton_cond_prob>>

LikNext == VisitLeaf \/ CombineChildren \/ AddRootLikelihood

SpecLik == LikInit /\ [][LikNext]_vars

\* L of node v in the graph of create_topology_log_lik, which never rescales
RECURSIVE topology_L(_)
RECURSIVE topology_down_probs(_, _)
topology_down_probs(v, cs) ==
    IF Len(cs) = 0 THEN <<>>
    ELSE LET c == Head(cs)
             d == ch_ordered_down_probs(pt_matrix[c], trim_probs[c], topology_L(c))
         IN << IF is_root(v) THEN root_down_prob(d, key_dicts[c])
               ELSE reorder_likelihoods(d, state_sum[v], key_dicts[v], key_dicts[c]) >>
            \o topology_down_probs(v, Tail(cs))

topology_L(v) ==
    IF is_leaf(v) THEN leaf_likelihood(key_dicts[v], state_sum[v])
    ELSE multiply_down_probs(topology_down_probs(v, SortedSeq(children(v))))

\* exp of the log_lik of create_topology_log_lik
create_topology_log_lik ==
    LET l_root == topology_L(root_node_id)
    IN [i \in 1..Len(l_root.vals) |-> Ratio(l_root.vals[i], l_root.den)]

----------------------------------------------------------------------------
(* Felsenstein pruner: properties *)

visited == 1..Len(L)
observed_tts(v) == CHOOSE t \in state_sum[v] : TRUE

\* C7: for every visited leaf v, L[v] has length num_likely_states + 1 and is
\* the indicator of the leaf's single observed tts: exactly one entry is 1,
\* at the index the leaf's own key_dict gives to that tts, and every other
\* entry, the unlikely one included, is 0.
C7_LeafLikelihoodIsIndicator ==
    \A v \in visited :
        is_leaf(v) =>
            LET tts_key == key_dicts[v][observed_tts(v)]
                unlikely_key == num_likely_states(key_dicts[v])
            IN /\ Cardinality(state_sum[v]) = 1
               /\ L[v].den = 1
               /\ Len(L[v].vals) = unlikely_key + 1
               /\ Cardinality({i \in 1..Len(L[v].vals) : L[v].vals[i] = 1}) = 1
               /\ L[v].vals[tts_key + 1] = 1
               /\ \A i \in 1..Len(L[v].vals) : i # tts_key + 1 => L[v].vals[i] = 0
               /\ L[v].vals[unlikely_key + 1] = 0

\* a visited leaf whose observed tts is not the first state of its numbering
C7_Witness ==
    \E v \in visited :
        /\ is_leaf(v)
        /\ key_dicts[v][observed_tts(v)] = 1
        /\ Len(L[v].vals) = 3
        /\ L[v].vals = <<0, 1, 0>>

\* C8: for every combined non-root internal node v and child c, every tts of
\* v.state_sum is numbered by both key_dicts, down_probs[c] holds at the
\* node's index of each such tts the entry of ch_down_probs[c] at the
\* child's index of it, and down_probs[c] is 0 at every other index, the
\* node's unlikely index included.
C8_ReorderRenumbersStateSum ==
    \A v \in visited :
        (~is_leaf(v) /\ ~is_root(v)) =>
            \A c \in children(v) :
                LET r == down_probs[c]
                    d == ch_down_probs[c]
                    node_idx == key_dicts[v]
                    child_idx == key_dicts[c]
                IN /\ state_sum[v] \subseteq (DOMAIN node_idx \cap DOMAIN child_idx)
                   /\ Len(r.vals) = num_likely_states(node_idx) + 1
                   /\ \A t \in state_sum[v] :
                        r.vals[node_idx[t] + 1] * d.den = d.vals[child_idx[t] + 1] * r.den
                   /\ \A i \in 1..Len(r.vals) :
                        (\A t \in state_sum[v] : node_idx[t] + 1 # i) => r.vals[i] = 0
                   /\ r.vals[num_likely_states(node_idx) + 1] = 0

\* a combined non-root node whose child numbers a state differently and
\* whose child vector is positive at a state outside the node's state sum
C8_Witness ==
    \E v \in visited :
        /\ ~is_leaf(v)
        /\ ~is_root(v)
        /\ \E c \in children(v) :
            /\ \E t \in state_sum[v] :
                /\ key_dicts[v][t] # key_dicts[c][t]
                /\ down_probs[c].vals[key_dicts[v][t] + 1] > 0
            /\ \E u \in (DOMAIN key_dicts[v] \cap DOMAIN key_dicts[c]) \ state_sum[v] :
                ch_down_probs[c].vals[key_dicts[c][u] + 1] > 0

\* the product over the children cs of entry[c] / den[c], as <<num, den>> in lowest terms
RECURSIVE ProductOver(_, _, _)
ProductOver(cs, entry, den) ==
    IF cs = {} THEN <<1, 1>>
    ELSE LET c == CHOOSE x \in cs : TRUE
             rest == ProductOver(cs \ {c}, entry, den)
             r == Ratio(entry[c] * rest[1], den[c] * rest[2])
         IN <<r.num, r.den>>

root_visited == Len(L) = Len(topology) /\ Len(L) > 0 /\ ~is_leaf(root_node_id)
unmodified_idx(c) == key_dicts[c][<<>>] + 1

\* C9: once the root is combined, every child's ch_down_probs is
\* (pt_matrix Hadamard trim_probs) . L[child] in the child's numbering, and
\* the root's likelihood before rescaling is the product over the children c
\* of the entry of ch_down_probs[c] at the child's index of the empty tuple;
\* the same holds for L[root] of the graph of create_topology_log_lik.
C9_RootIsProductOfUnmodifiedEntries ==
    root_visited =>
        LET chs == children(root_node_id)
        IN /\ \A c \in chs :
                LET d == ch_down_probs[c]
                    n == num_likely_states(key_dicts[c]) + 1
                IN /\ Len(d.vals) = n
                   /\ \A i \in 1..n :
                        d.vals[i] * Unit * One * L[c].den
                        = d.den * SumSeq([j \in 1..n |->
                              pt_matrix[c][i][j] * trim_probs[c][i][j] * L[c].vals[j]])
           /\ \A prod \in {ProductOver(chs,
                              [c \in chs |-> ch_down_probs[c].vals[unmodified_idx(c)]],
                              [c \in chs |-> ch_down_probs[c].den])} :
                scaler.num * prod[2] = prod[1] * scaler.den
           /\ \A graph_root \in {topology_L(root_node_id)} :
              \A graph_d \in {[c \in chs |->
                    ch_ordered_down_probs(pt_matrix[c], trim_probs[c], topology_L(c))]} :
              \A graph_prod \in {ProductOver(chs,
                                    [c \in chs |-> graph_d[c].vals[unmodified_idx(c)]],
                                    [c \in chs |-> graph_d[c].den])} :
                /\ Len(graph_root.vals) = 1
                /\ graph_root.vals[1] * graph_prod[2] = graph_prod[1] * graph_root.den

\* a combined root with two children, one of which numbers the unmodified
\* barcode second and has a different entry at index 0
C9_Witness ==
    /\ root_visited
    /\ Cardinality(children(root_node_id)) >= 2
    /\ \E c \in children(root_node_id) :
        /\ unmodified_idx(c) > 1
        /\ ch_down_probs[c].vals[1] # ch_down_probs[c].vals[unmodified_idx(c)]
        /\ \E i \in 1..Len(ch_down_probs[c].vals) :
            i # unmodified_idx(c) /\ ch_down_probs[c].vals[i] > 0

\* C10: the stored L[v] of every combined internal node v has largest entry
\* 1, the last combined node's stored L times its scaler is the product of
\* its children's down_probs, and when get_likelihood returns, log_lik equals
\* the log of the likelihood of the graph that never rescales.
C10_RescalingKeepsLogLikelihood ==
    /\ \A v \in visited :
        ~is_leaf(v) => (L[v].den > 0 /\ MaxOf(L[v].vals) = L[v].den)
    /\ (Len(L) > 0 /\ ~is_leaf(Len(L))) =>
        \A unscaled \in {multiply_down_probs(child_list(children(Len(L)), down_probs))} :
            /\ scaler.num * unscaled.den = MaxOf(unscaled.vals) * scaler.den
            /\ \A i \in 1..Len(L[Len(L)].vals) :
                L[Len(L)].vals[i] * scaler.num * unscaled.den
                = unscaled.vals[i] * L[Len(L)].den * scaler.den
    /\ (pc = "done" /\ ~is_leaf(root_node_id)) =>
        \A graph_lik \in {create_topology_log_lik} :
            /\ Len(log_lik) = 1
            /\ Len(graph_lik) = 1
            /\ log_lik[1].num * graph_lik[1].den = graph_lik[1].num * log_lik[1].den
            /\ log_lik[1].num > 0

\* get_likelihood has returned a likelihood below 1 for a tree with a
\* non-root node of two children whose vector had to be rescaled
C10_Witness ==
    /\ pc = "done"
    /\ log_lik[1].num < log_lik[1].den
    /\ \E v \in visited :
        /\ ~is_leaf(v)
        /\ ~is_root(v)
        /\ Cardinality(children(v)) = 2
        /\ \E unscaled \in {multiply_down_probs(child_list(children(v), down_probs))} :
            MaxOf(unscaled.vals) < unscaled.den

----------------------------------------------------------------------------
(* Zero likelihood *)

\* C11: when the combined partial likelihood of a node is zero in every
\* entry, get_likelihood returns a log-likelihood (of -inf) to its caller:
\* the evaluation never ends in the aborting ValueError, that is never at
\* pc = "error".
C11_ZeroLikelihoodIsReturned ==
    pc # "error"

----------------------------------------------------------------------------
(* One-node topology *)

\* C12: for a one-node topology (the root is the only leaf) the returned
\* log_lik is one number, the log of the entry [empty tuple, observed tts]
\* of the probability matrix of some branch.
C12_OneNodeLogLikIsBranchProbability ==
    (pc = "done" /\ Len(topology) = 1) =>
        /\ Len(log_lik) = 1
        /\ \E kind \in BranchKinds :
            LET n == num_likely_states(key_dicts[1]) + 1
                pt == branch_prob_matrix(n, kind)[key_dicts[1][<<>>] + 1]
                                                 [key_dicts[1][observed_tts(1)] + 1]
            IN log_lik[1].num * One = pt * log_lik[1].den

----------------------------------------------------------------------------
(* Independence of the state numbering *)

\* key_dict with every index moved up by one, cyclically
rotate_key(key_dict) ==
    [t \in DOMAIN key_dict |-> (key_dict[t] + 1) % Cardinality(DOMAIN key_dict)]

\* mat with rows and columns moved from the numbering old_key to new_key,
\* the unlikely index kept last
permute_matrix(mat, old_key, new_key) ==
    LET n == Len(mat)
        old_idx(i) ==
            IF i = n THEN n
            ELSE old_key[CHOOSE t \in DOMAIN new_key : new_key[t] + 1 = i] + 1
    IN [i \in 1..n |-> [j \in 1..n |-> mat[old_idx(i)][old_idx(j)]]]

\* L of node v in the graph of create_topology_log_lik built from the
\* skeleton numberings kds and the matrices pts and trims
RECURSIVE renumbered_L(_, _, _, _)
RECURSIVE renumbered_down_probs(_, _, _, _, _)
renumbered_down_probs(v, cs, kds, pts, trims) ==
    IF Len(cs) = 0 THEN <<>>
    ELSE LET c == Head(cs)
             d == ch_ordered_down_probs(pts[c], trims[c], renumbered_L(c, kds, pts, trims))
         IN << IF is_root(v) THEN root_down_prob(d, kds[c])
               ELSE reorder_likelihoods(d, state_sum[v], kds[v], kds[c]) >>
            \o renumbered_down_probs(v, Tail(cs), kds, pts, trims)

renumbered_L(v, kds, pts, trims) ==
    IF is_leaf(v) THEN leaf_likelihood(kds[v], state_sum[v])
    ELSE multiply_down_probs(
             renumbered_down_probs(v, SortedSeq(children(v)), kds, pts, trims))

\* the root likelihood after node v's numbering is replaced by new_key
likelihood_renumbered_at(v, new_key) ==
    renumbered_L(root_node_id,
                 [key_dicts EXCEPT ![v] = new_key],
                 [pt_matrix EXCEPT ![v] = permute_matrix(@, key_dicts[v], new_key)],
                 [trim_probs EXCEPT ![v] = permute_matrix(@, key_dicts[v], new_key)])

\* C13: when get_likelihood has returned for a tree, replacing the
\* numbering of any one non-root node by a rotated one, with the rows and
\* columns of that node's pt_matrix and trim_probs (and so its L) permuted
\* accordingly and the unlikely index kept last, gives the same root
\* likelihood.
C13_LikelihoodIndependentOfNumbering ==
    (pc = "done" /\ ~is_leaf(root_node_id)) =>
        \A v \in 1..(Len(topology) - 1) :
            \A renumbered \in {likelihood_renumbered_at(v, rotate_key(key_dicts[v]))} :
                /\ Len(renumbered.vals) = 1
                /\ renumbered.vals[1] * log_lik[1].den = log_lik[1].num * renumbered.den

\* get_likelihood has returned a likelihood below 1 for a tree with a
\* non-root internal node that numbers three states, and a child of it
\* that numbers at least two
C13_Witness ==
    /\ pc = "done"
    /\ ~is_leaf(root_node_id)
    /\ log_lik[1].num < log_lik[1].den
    /\ \E v \in 1..(Len(topology) - 1) :
        /\ ~is_leaf(v)
        /\ num_likely_states(key_dicts[v]) = 3
        /\ \E c \in children(v) :
            /\ num_likely_states(key_dicts[c]) >= 2
            /\ \E t \in state_sum[v] : key_dicts[v][t] # key_dicts[c][t]

----------------------------------------------------------------------------
(* Trim probability matrix of the graph of create_topology_log_lik *)

\* the singletons of child's anc_state that match the target tracts tracts
matching_singletons(child, tracts) ==
    {[target_tract |-> tt, node |-> child] : tt \in tracts}

\* the (node, child) edges whose state sums hold the pair (node_tts, child_tts)
edges_with_pair(node_tts, child_tts) ==
    {e \in (1..Len(topology)) \X (1..Len(topology)) :
        /\ topology[e[2]] = e[1]
        /\ node_tts \in state_sum[e[1]]
        /\ child_tts \in state_sum[e[2]]}

\* node_child_singletons[(node_tts, child_tts)] after _get_unmasked_indels:
\* the dict is keyed by the pair alone, so the entry is the one written for
\* the last edge of the postorder traversal that holds the pair
node_child_singletons(node_tts, child_tts) ==
    LET edges == edges_with_pair(node_tts, child_tts)
        last == CHOOSE e \in edges :
                    \A f \in edges : f[1] < e[1] \/ (f[1] = e[1] /\ f[2] <= e[2])
    IN matching_singletons(last[2], target_tract_repr_diff(node_tts, child_tts))

\* tf.reduce_prod of the conditional probabilities of the singletons sgs
RECURSIVE reduce_prod_singletons(_)
reduce_prod_singletons(sgs) ==
    IF sgs = {} THEN One
    ELSE LET sg == CHOOSE x \in sgs : TRUE
         IN Mul(singleton_cond_prob[sg.node], reduce_prod_singletons(sgs \ {sg}))

\* the trim probability matrix of the branch from node to child
create_trim_prob_matrix(node, child) ==
    LET ch_key == key_dicts[child]
        n == num_likely_states(ch_key) + 1
        pairs(i, j) ==
            {pr \in state_sum[node] \X state_sum[child] :
                /\ ch_key[pr[1]] + 1 = i
                /\ ch_key[pr[2]] + 1 = j
                /\ node_child_singletons(pr[1], pr[2]) # {}}
    IN [i \in 1..n |-> [j \in 1..n |->
            IF pairs(i, j) = {} THEN One
            ELSE LET pr == CHOOSE x \in pairs(i, j) : TRUE
                 IN reduce_prod_singletons(node_child_singletons(pr[1], pr[2]))]]

\* C14: for every edge (node, child) the trim probability matrix of the
\* graph has shape (Sc+1) x (Sc+1), holds at [child index of node_tts, child
\* index of child_tts] the product of the conditional probabilities of the
\* singletons of the child's anc_state that match the pair, for each pair of
\* node.state_sum x child.state_sum, and is 1 at every other entry, the
\* unlikely row and column included.
C14_TrimMatrixHoldsEdgeSingletonProbs ==
    (pc = "done" /\ ~is_leaf(root_node_id)) =>
        \A child \in 1..(Len(topology) - 1) :
            LET node == topology[child]
                ch_key == key_dicts[child]
                n == num_likely_states(ch_key) + 1
                T == create_trim_prob_matrix(node, child)
                paired(i, j) ==
                    \E nt \in state_sum[node], ct \in state_sum[child] :
                        ch_key[nt] + 1 = i /\ ch_key[ct] + 1 = j
            IN /\ Len(T) = n
               /\ \A i \in 1..n : Len(T[i]) = n
               /\ \A nt \in state_sum[node], ct \in state_sum[child] :
                    T[ch_key[nt] + 1][ch_key[ct] + 1]
                    = reduce_prod_singletons(
                          matching_singletons(child, target_tract_repr_diff(nt, ct)))
               /\ \A i \in 1..n, j \in 1..n : ~paired(i, j) => T[i][j] = One
               /\ \A i \in 1..n : T[i][n] = One /\ T[n][i] = One

----------------------------------------------------------------------------
(* Assembly of Q from a malformed skeleton *)

QMalformedInit ==
    /\ QInit
    /\ target_lams = Rep(1, NumTargets)
    /\ trim_long_probs = <<0, 0>>

\* every transition of skeleton w is by an event possible from its start
well_formed_rows(w) ==
    \A t \in DOMAIN w.matrix_dict : \A end_tts \in DOMAIN w.matrix_dict[t] :
        w.matrix_dict[t][end_tts] \in get_possible_target_tracts(ActiveTargets(t))

\* a well formed skeleton gains a transition from start_tts by an event e
\* that is not possible from start_tts
AddImpossibleTransition ==
    /\ pc = "skeleton"
    /\ well_formed_rows(matrix_wrapper)
    /\ \E start_tts \in DOMAIN matrix_wrapper.key_dict :
       \E e \in WellFormedTargetTracts
                \ get_possible_target_tracts(ActiveTargets(start_tts)) :
        LET end_tts == ApplyTargetTract(start_tts, e)
            known == end_tts \in DOMAIN matrix_wrapper.key_dict
            n == matrix_wrapper.num_likely_states
            row == matrix_wrapper.matrix_dict[start_tts]
        IN /\ end_tts \notin DOMAIN row
           /\ known \/ n < MaxStates
           /\ matrix_wrapper' =
                [key_dict |->
                    IF known THEN matrix_wrapper.key_dict
                    ELSE matrix_wrapper.key_dict @@ (end_tts :> n),
                 matrix_dict |->
                    [t \in DOMAIN matrix_wrapper.matrix_dict \cup {end_tts} |->
                        IF t = start_tts THEN row @@ (end_tts :> e)
                        ELSE IF t \in DOMAIN matrix_wrapper.matrix_dict
                        THEN matrix_wrapper.matrix_dict[t]
                        ELSE EmptyRow],
                 num_likely_states |-> IF known THEN n ELSE n + 1]
    /\ UNCHANGED <<param_vars, other_vars, pc, hazard_vars, q_matrix, input_vars, lik_vars>>

QMalformedNext == AddTransition \/ AddImpossibleTransition \/ CreateTransitionMatrix

SpecQMalformed == QMalformedInit /\ [][QMalformedNext]_vars

\* C15: when for some row of the skeleton the hazard away is smaller than the
\* sum of the hazards to the likely end states, no matrix is produced: an
\* assembled q_matrix never has a negative entry in the unlikely column.
C15_NegativeMassToUnlikelyIsFatal ==
    pc = "assembled" =>
        \A i \in DOMAIN q_matrix : q_matrix[i][matrix_wrapper.num_likely_states] >= 0

----------------------------------------------------------------------------
(* Deletion probability of a singleton *)

\* barcode metadata: cut sites 4 apart, short trims of 0..1, long trims of 2..3
BarcodeLen == 4 * NumTargets
abs_cut_sites == [t \in 1..NumTargets |-> 4 * t - 2]
left_long_trim_min == [t \in 1..NumTargets |-> 2]
right_long_trim_min == [t \in 1..NumTargets |-> 2]
left_max_trim == [t \in 1..NumTargets |-> 3]
right_max_trim == [t \in 1..NumTargets |-> 3]

RMul(a, b) == Ratio(a.num * b.num, a.den * b.den)
RAdd(a, b) == Ratio(a.num * b.den + b.num * a.den, a.den * b.den)
ROneMinus(a) == Ratio(a.den - a.num, a.den)

\* tf_common.ifelse on a 0/1 flag, tf_common.equal_float
ifelse(flag, a, b) == IF flag = 1 THEN a ELSE b
equal_float(x, y) == IF x = y THEN 1 ELSE 0

\* the singletons whose deletion probability is asked for
Singletons ==
    {sg \in [min_target : Targets, max_target : Targets,
             is_left_long : {0, 1}, is_right_long : {0, 1},
             start_pos : 0..BarcodeLen, del_len : 0..BarcodeLen] :
        sg.min_target <= sg.max_target /\ sg.start_pos + sg.del_len <= BarcodeLen}

\* probability of the left trim length of sg
left_prob(sg) ==
    LET left_trim_len == abs_cut_sites[sg.min_target + 1] - sg.start_pos
        left_trim_long_min == left_long_trim_min[sg.min_target + 1]
        min_left_trim == sg.is_left_long * left_trim_long_min
        max_left_trim ==
            ifelse(sg.is_left_long, left_max_trim[sg.min_target + 1], left_trim_long_min - 1)
        check_left_max == IF left_trim_len <= max_left_trim THEN 1 ELSE 0
    IN Ratio(check_left_max, max_left_trim - min_left_trim + 1)

\* probability of the right trim length of sg
right_prob(sg) ==
    LET right_trim_len == sg.del_end - abs_cut_sites[sg.max_target + 1]
        right_trim_long_min == right_long_trim_min[sg.max_target + 1]
        min_right_trim == sg.is_right_long * right_trim_long_min
        max_right_trim ==
            ifelse(sg.is_right_long, right_max_trim[sg.max_target + 1],
                   right_trim_long_min - 1)
        check_right_max == IF right_trim_len <= max_right_trim THEN 1 ELSE 0
        check_right_min == IF min_right_trim <= right_trim_len THEN 1 ELSE 0
    IN Ratio(check_right_max * check_right_min, max_right_trim - min_right_trim + 1)

\* conditional probability of a deletion, sg holding the arguments of the call
create_del_probs(z, sg) ==
    LET del_len == sg.del_end - sg.start_pos
        lr == RMul(left_prob(sg), right_prob(sg))
        is_short_indel == equal_float(sg.is_left_long + sg.is_right_long, 0)
        is_len_zero == equal_float(del_len, 0)
    IN ifelse(is_short_indel,
              ifelse(is_len_zero, RAdd(z, RMul(ROneMinus(z), lr)), RMul(ROneMinus(z), lr)),
              lr)

DelInit ==
    /\ NoHazard
    /\ NoDrivers
    /\ pc = "singleton"
    /\ NoLikelihood
    /\ NoEngine
    /\ NoMatch
    /\ trim_zero_prob \in {Ratio(k, ProbDenom) : k \in 0..ProbDenom}
    /\ singleton \in Singletons
    /\ del_prob = <<>>

\* the arguments _create_indel_probs passes for singleton sg: del_ends is
\* filled with sg.del_len
del_probs_args(sg) ==
    [min_target |-> sg.min_target, max_target |-> sg.max_target,
     is_left_long |-> sg.is_left_long, is_right_long |-> sg.is_right_long,
     start_pos |-> sg.start_pos, del_end |-> sg.del_len]

\* _create_indel_probs: the deletion probability of the singleton at hand
CreateDelProbs ==
    /\ pc = "singleton"
    /\ del_prob' = create_del_probs(trim_zero_prob, del_probs_args(singleton))
    /\ pc' = "del_prob"
    /\ UNCHANGED <<param_vars, hazard_vars, matrix_vars, input_vars, lik_vars,
                   engine_vars, match_vars, scorer_vars, simulate_vars, birth_death_vars,
                   uniq_vars, trim_zero_prob, singleton>>

DelNext == CreateDelProbs

SpecDel == DelInit /\ [][DelNext]_vars

\* C16: the deletion probability of a singleton has the trim_zero_prob zero
\* inflation only when both long flags are false: z + (1 - z) * left * right
\* for a deletion of length 0 and (1 - z) * left * right otherwise; with a
\* long flag set it is left * right, also when the other side is short.
C16_ZeroInflationOnlyWhenBothShort ==
    pc = "del_prob" =>
        LET z == trim_zero_prob
            lr == RMul(left_prob(del_probs_args(singleton)),
                       right_prob(del_probs_args(singleton)))
        IN /\ (singleton.is_left_long = 0 /\ singleton.is_right_long = 0
                /\ singleton.del_len = 0)
                => del_prob = RAdd(z, RMul(ROneMinus(z), lr))
           /\ (singleton.is_left_long = 0 /\ singleton.is_right_long = 0
                /\ singleton.del_len # 0)
                => del_prob = RMul(ROneMinus(z), lr)
           /\ (singleton.is_left_long = 1 \/ singleton.is_right_long = 1)
                => del_prob = lr

----------------------------------------------------------------------------
(* Building the engine: node numbering, annotation, skeletons *)

MaxBuilds == 2
max_extra_steps == 1

\* the traversal that visits v before the subtrees of its children
RECURSIVE traverse_preorder(_, _)
traverse_preorder(p, v) ==
    LET RECURSIVE over(_)
        over(cs) ==
            IF Len(cs) = 0 THEN <<>>
            ELSE traverse_preorder(p, Head(cs)) \o over(Tail(cs))
    IN <<v>> \o over(SortedSeq({c \in 1..Len(p) : p[c] = v}))

\* topology.traverse("postorder") below node v: the children's subtrees in
\* the order of the children, then v
RECURSIVE traverse_postorder(_, _)
traverse_postorder(p, v) ==
    LET RECURSIVE over(_)
        over(cs) ==
            IF Len(cs) = 0 THEN <<>>
            ELSE traverse_postorder(p, Head(cs)) \o over(Tail(cs))
    IN over(SortedSeq({c \in 1..Len(p) : p[c] = v})) \o <<v>>

\* the node_id each node gets: its position in the traversal, from 0
number_nodes(p) ==
    LET order == traverse_postorder(p, Len(p))
    IN [v \in 1..Len(p) |-> (CHOOSE i \in 1..Len(order) : order[i] = v) - 1]

\* the target tracts of a tts
TractsOf(t) == {t[i] : i \in 1..Len(t)}

\* annotate_ancestral_states: a leaf has its observed events, an internal
\* node what its children have in common, the root nothing
RECURSIVE ancestral_state(_, _, _)
ancestral_state(p, obs, v) ==
    LET chs == {c \in 1..Len(p) : p[c] = v}
    IN IF chs = {} THEN TractsOf(obs[v])
       ELSE IF v = Len(p) THEN {}
       ELSE {tt \in UNION {TractsOf(t) : t \in LikTts} :
                \A c \in chs : tt \in ancestral_state(p, obs, c)}

annotate_ancestral_states(p, obs) == [v \in 1..Len(p) |-> ancestral_state(p, obs, v)]

\* annotate_state_sum_transitions: the observed tts at a leaf, at an internal
\* node the tts within the ancestral state of at most max_extra_steps events
annotate_state_sum_transitions(p, obs, anc) ==
    [v \in 1..Len(p) |->
        IF \A c \in 1..Len(p) : p[c] # v THEN {obs[v]}
        ELSE {t \in LikTts : TractsOf(t) \subseteq anc[v] /\ Len(t) <= max_extra_steps}]

\* create_transition_matrix_wrappers: per node the numbering of its state sum
\* and the one-event transitions between its states
create_transition_matrix_wrappers(ids, ss) ==
    [v \in DOMAIN ss |->
        [node_id |-> ids[v],
         key_dict |-> [t \in ss[v] |-> Cardinality({u \in ss[v] : TtsRank(u) < TtsRank(t)})],
         matrix_dict |->
            [t \in ss[v] |->
                {u \in ss[v] : Len(u) = Len(t) + 1 /\ TractsOf(t) \subseteq TractsOf(u)}],
         num_likely_states |-> Cardinality(ss[v])]]

\* a topology with observed leaves and no features on its nodes
EngineInit ==
    /\ NoHazard
    /\ NoDrivers
    /\ pc = "topology"
    /\ key_dicts = <<>>
    /\ pt_matrix = <<>>
    /\ trim_probs = <<>>
    /\ ch_down_probs = <<>>
    /\ down_probs = <<>>
    /\ scaler = <<>>
    /\ singleton_cond_prob = <<>>
    /\ L = <<>>
    /\ log_lik = <<>>
    /\ node_ptr = 0
    /\ NoIndel
    /\ NoMatch
    /\ topology \in Topologies
    /\ leaf_state \in [1..Len(topology) -> LikTts]
    /\ \A v \in 1..Len(topology) : (~is_leaf(v)) => leaf_state[v] = <<>>
    /\ state_sum = <<>>
    /\ node_ids = <<>>
    /\ anc_state = <<>>
    /\ model_params = <<>>
    /\ engines = <<>>

\* CLTLikelihoodModel.__init__: numbers the nodes of the topology it is given
BuildModel ==
    /\ pc = "topology"
    /\ Len(engines) < MaxBuilds
    /\ node_ids' = number_nodes(topology)
    /\ model_params' =
        [root_node_id |-> number_nodes(topology)[Len(topology)],
         num_nodes |-> Len(topology)]
    /\ pc' = "model"
    /\ UNCHANGED <<param_vars, hazard_vars, matrix_vars, input_vars, lik_vars,
                   indel_vars, match_vars, scorer_vars, simulate_vars, birth_death_vars,
                   uniq_vars, leaf_state, anc_state, engines>>

\* CLTLassoEstimator.__init__: annotates the topology of the model and keeps
\* the skeletons
BuildEstimator ==
    /\ pc = "model"
    /\ LET anc == annotate_ancestral_states(topology, leaf_state)
           ss == annotate_state_sum_transitions(topology, leaf_state, anc)
       IN /\ anc_state' = anc
          /\ state_sum' = ss
          /\ engines' = Append(engines,
                [node_ids |-> node_ids,
                 root_node_id |-> model_params.root_node_id,
                 num_nodes |-> model_params.num_nodes,
                 transition_mat_wrappers |-> create_transition_matrix_wrappers(node_ids, ss)])
    /\ pc' = "topology"
    /\ UNCHANGED <<param_vars, hazard_vars, matrix_vars, topology, lik_vars,
                   indel_vars, match_vars, scorer_vars, simulate_vars, birth_death_vars,
                   uniq_vars, leaf_state, node_ids, model_params>>

EngineNext == BuildModel \/ BuildEstimator

SpecEngine == EngineInit /\ [][EngineNext]_vars

\* the topology object: the tree, the observed leaves and the node features
topology_object == <<topology, leaf_state, node_ids, anc_state, state_sum>>

\* C17: building the engine is idempotent and pure: two builds from the same
\* topology give the same node ids and skeletons, and no step of a build
\* changes the topology object it was given.
C17_BuildIsIdempotentAndPure ==
    [][/\ Len(engines') = MaxBuilds => engines'[1] = engines'[2]
       /\ topology_object' = topology_object]_vars

----------------------------------------------------------------------------
(* Matching the singletons of an ancestral state against target tracts *)

IndelSetClasses == {"SingletonWC", "Wildcard"}

\* an indel set of class cls over the targets of tract tt
IndelSet(cls, tt) ==
    [class |-> cls, min_deact_target |-> tt.min_deact_target, min_target |-> tt.min_target,
     max_target |-> tt.max_target, max_deact_target |-> tt.max_deact_target]

\* the indel set lists of the ancestral states: ordered, pairwise disjoint
AncStates ==
    UNION {{[i \in 1..Len(t) |-> IndelSet(cls[i], t[i])] :
                cls \in [1..Len(t) -> IndelSetClasses]} : t \in AllTts}

\* sg_only_anc_state
sg_only_anc_state(indel_sets) == SelectSeq(indel_sets, LAMBDA s : s.class = "SingletonWC")

\* the target tract of a SingletonWC
sg_target_tract(sgwc) ==
    TargetTract(sgwc.min_deact_target, sgwc.min_target, sgwc.max_target,
                sgwc.max_deact_target)

\* sgwc.get_singleton()
get_singleton(sgwc) == IndelSet("Singleton", sgwc)

\* tract a deactivates only targets left of those tract b deactivates, or
\* shares its first with the last of a
tract_before_or_touching(a, b) == a.max_deact_target <= b.min_deact_target

\* tract a deactivates only targets left of those tract b deactivates
tract_before(a, b) == a.max_deact_target < b.min_deact_target

MatchInit ==
    /\ NoHazard
    /\ NoDrivers
    /\ pc = "scan"
    /\ NoLikelihood
    /\ NoIndel
    /\ NoEngine
    /\ indel_set_list \in AncStates
    /\ diff_target_tracts \in AllTts
    /\ sg_idx = 0
    /\ tts_idx = 0
    /\ matching_sgs = <<>>

in_loop ==
    /\ pc = "scan"
    /\ sg_idx < Len(sg_only_anc_state(indel_set_list))
    /\ tts_idx < Len(diff_target_tracts)

cur_tt == diff_target_tracts[tts_idx + 1]
cur_sgwc == sg_only_anc_state(indel_set_list)[sg_idx + 1]

match_frame ==
    UNCHANGED <<param_vars, pc, hazard_vars, matrix_vars, input_vars, lik_vars,
                indel_vars, engine_vars, scorer_vars, simulate_vars, birth_death_vars,
                uniq_vars, indel_set_list, diff_target_tracts>>

\* the target tract lies before the singleton
SkipTargetTract ==
    /\ in_loop
    /\ tract_before(cur_tt, sg_target_tract(cur_sgwc))
    /\ tts_idx' = tts_idx + 1
    /\ UNCHANGED <<sg_idx, matching_sgs>>
    /\ match_frame

\* the singleton lies before the target tract
SkipSingleton ==
    /\ in_loop
    /\ ~tract_before(cur_tt, sg_target_tract(cur_sgwc))
    /\ tract_before(sg_target_tract(cur_sgwc), cur_tt)
    /\ sg_idx' = sg_idx + 1
    /\ UNCHANGED <<tts_idx, matching_sgs>>
    /\ match_frame

\* the two overlap: a match when they are equal
CompareOverlapping ==
    /\ in_loop
    /\ ~tract_before(cur_tt, sg_target_tract(cur_sgwc))
    /\ ~tract_before(sg_target_tract(cur_sgwc), cur_tt)
    /\ matching_sgs' =
        IF sg_target_tract(cur_sgwc) = cur_tt
        THEN Append(matching_sgs, get_singleton(cur_sgwc))
        ELSE matching_sgs
    /\ sg_idx' = sg_idx + 1
    /\ tts_idx' = tts_idx + 1
    /\ match_frame

\* the loop condition fails
ReturnMatching ==
    /\ pc = "scan"
    /\ ~in_loop
    /\ pc' = "returned"
    /\ UNCHANGED <<param_vars, hazard_vars, matrix_vars, input_vars, lik_vars,
                   indel_vars, engine_vars, match_vars, scorer_vars, simulate_vars,
                   birth_death_vars, uniq_vars>>

MatchNext == SkipTargetTract \/ SkipSingleton \/ CompareOverlapping \/ ReturnMatching

SpecMatch == MatchInit /\ [][MatchNext]_vars /\ WF_vars(MatchNext)

\* the singletons of indel_sets whose target tract is an element of t, in
\* the order of indel_sets
RECURSIVE singletons_among(_, _)
singletons_among(indel_sets, t) ==
    IF Len(indel_sets) = 0 THEN <<>>
    ELSE (IF /\ Head(indel_sets).class = "SingletonWC"
             /\ sg_target_tract(Head(indel_sets)) \in TractsOf(t)
          THEN <<get_singleton(Head(indel_sets))>> ELSE <<>>)
         \o singletons_among(Tail(indel_sets), t)

\* C20: for an ordered, pairwise disjoint ancestral state and an ordered,
\* pairwise disjoint tts, get_matching_singletons returns exactly the
\* singletons whose target tract equals an element of tts, in order and each
\* once, and the scan always terminates.
C20_ScanReturnsExactlyTheMatches ==
    /\ [](pc = "returned" =>
            matching_sgs = singletons_among(indel_set_list, diff_target_tracts))
    /\ <>(pc = "returned")

\* a scan that returned a match after passing a wildcard and a singleton
\* that overlaps a target tract without being equal to it
C20_Witness ==
    /\ pc = "returned"
    /\ Len(matching_sgs) >= 1
    /\ \E i \in 1..Len(indel_set_list) : indel_set_list[i].class = "Wildcard"
    /\ \E i \in 1..Len(indel_set_list) : \E j \in 1..Len(diff_target_tracts) :
        /\ indel_set_list[i].class = "SingletonWC"
        /\ sg_target_tract(indel_set_list[i]) # diff_target_tracts[j]
        /\ ~tract_before(sg_target_tract(indel_set_list[i]), diff_target_tracts[j])
        /\ ~tract_before(diff_target_tracts[j], sg_target_tract(indel_set_list[i]))


\* C23: the trim length probability of each side is uniform over the
\* admissible range and zero outside it: with [min, max] =
\* [long_trim_min, max_trim] for a long side and [0, long_trim_min - 1] for a
\* short side it is 1 / (max - min + 1) when min <= trim length <= max and 0
\* otherwise, on the left as on the right.
C23_TrimLengthUniformOnAdmissibleRange ==
    pc = "del_prob" =>
        LET sg == del_probs_args(singleton)
            uniform(len, is_long, long_min, max_trim) ==
                LET lo == IF is_long = 1 THEN long_min ELSE 0
                    hi == IF is_long = 1 THEN max_trim ELSE long_min - 1
                IN IF lo <= len /\ len <= hi THEN Ratio(1, hi - lo + 1) ELSE Ratio(0, 1)
        IN /\ left_prob(sg) =
                uniform(abs_cut_sites[sg.min_target + 1] - sg.start_pos, sg.is_left_long,
                        left_long_trim_min[sg.min_target + 1], left_max_trim[sg.min_target + 1])
           /\ right_prob(sg) =
                uniform(sg.del_end - abs_cut_sites[sg.max_target + 1], sg.is_right_long,
                        right_long_trim_min[sg.max_target + 1],
                        right_max_trim[sg.max_target + 1])


\* C24: the deletion end passed to the deletion probability of a singleton
\* is start_pos + del_len, so that the right trim length is
\* start_pos + del_len - abs_cut_sites[max_target], the left trim length is
\* abs_cut_sites[min_target] - start_pos and the length tested for the zero
\* length case is the singleton's del_len.
C24_DeletionEndIsStartPlusLength ==
    pc = "del_prob" =>
        LET sg == del_probs_args(singleton)
        IN /\ sg.del_end = singleton.start_pos + singleton.del_len
           /\ sg.start_pos = singleton.start_pos
           /\ sg.min_target = singleton.min_target
           /\ sg.max_target = singleton.max_target
           /\ sg.del_end - sg.start_pos = singleton.del_len


\* C25: the likelihood evaluation visits the nodes in postorder: the nodes
\* whose L is computed are those the traversal has passed, one L each, every
\* child of such a node among them, and the root is the last one; the node
\* ids given at construction are unique, cover 0..V-1, follow the traversal
\* and give every child a smaller id than its parent.
C25_PostorderVisitAndNumbering ==
    pc \in {"traverse", "done"} =>
        LET V == Len(topology)
            order == traverse_postorder(topology, root_node_id)
            ids == number_nodes(topology)
        IN /\ Len(order) = V
           /\ \A k \in 1..Len(L) : order[k] = k
           /\ Len(L) = node_ptr - 1
           /\ \A v \in visited : \A c \in children(v) : c \in visited
           /\ root_node_id \in visited => visited = 1..V
           /\ pc = "done" => root_node_id \in visited
           /\ {ids[v] : v \in 1..V} = 0..(V - 1)
           /\ \A v \in 1..V : \A c \in children(v) : ids[c] < ids[v]
           /\ \A k \in 1..V : ids[order[k]] = k - 1

\* C25 witness: the evaluation of a four-node tree with an internal node
\* below the root has returned
C25_Witness ==
    /\ pc = "done"
    /\ Len(topology) = 4
    /\ \E v \in 1..3 : ~is_leaf(v) /\ Cardinality(children(v)) = 2
    /\ Len(L) = 4

----------------------------------------------------------------------------
(* LikelihoodScorer.do_work_directly: several initialisations, best result *)

MaxInits == 2
MaxTryPerInit == 2
MaxPenLogLik == 2

\* the likelihood engine and its preprocessing are idle
NoCore == NoHazard /\ NoLikelihood /\ NoIndel /\ NoEngine /\ NoMatch

\* the result picked when a later result replaces the best one on a tie
RECURSIVE pick_best_last_on_ties(_, _)
pick_best_last_on_ties(best, rest) ==
    IF Len(rest) = 0 THEN best
    ELSE pick_best_last_on_ties(
            IF Head(rest).pen_log_lik >= best.pen_log_lik THEN Head(rest) ELSE best,
            Tail(rest))

\* the loop "for res in results" from best_res = best
RECURSIVE pick_best(_, _)
pick_best(best, rest) ==
    IF Len(rest) = 0 THEN best
    ELSE pick_best(IF Head(rest).pen_log_lik > best.pen_log_lik THEN Head(rest) ELSE best,
                   Tail(rest))

ScorerInit ==
    /\ NoCore
    /\ NoSimulate /\ NoBirthDeath /\ NoUniq
    /\ pc = "fitting"
    /\ num_inits \in 0..MaxInits
    /\ max_try_per_init \in 1..MaxTryPerInit
    /\ max_tries = max_try_per_init * num_inits
    /\ try_idx = 0
    /\ attempts = <<>>
    /\ results = <<>>
    /\ best_res = <<>>

scorer_frame ==
    UNCHANGED <<param_vars, hazard_vars, matrix_vars, input_vars, lik_vars, indel_vars,
                engine_vars, match_vars, simulate_vars, birth_death_vars, uniq_vars,
                num_inits, max_try_per_init, max_tries>>

\* one pass of the loop over range(max_tries): fit_one_init returns a result,
\* raises InvalidArgumentError, or raises another exception
FitOneInit ==
    /\ pc = "fitting"
    /\ try_idx < max_tries
    /\ Len(results) < num_inits
    /\ \/ \E v \in 0..MaxPenLogLik :
            /\ attempts' = Append(attempts, "result")
            /\ results' = Append(results, [init_index |-> try_idx, pen_log_lik |-> v])
            /\ try_idx' = IF Len(results') >= num_inits THEN try_idx ELSE try_idx + 1
            /\ UNCHANGED pc
       \/ /\ attempts' = Append(attempts, "InvalidArgumentError")
          /\ try_idx' = try_idx + 1
          /\ UNCHANGED <<pc, results>>
       \/ /\ attempts' = Append(attempts, "ValueError")
          /\ pc' = "raised"
          /\ UNCHANGED <<try_idx, results>>
    /\ UNCHANGED best_res
    /\ scorer_frame

\* after the loop: the assertion, then the best result
PickBest ==
    /\ pc = "fitting"
    /\ ~(try_idx < max_tries /\ Len(results) < num_inits)
    /\ IF Len(results) > 0
       THEN /\ best_res' = pick_best(results[1], results)
            /\ pc' = "returned"
       ELSE /\ pc' = "AssertionError"
            /\ UNCHANGED best_res
    /\ UNCHANGED <<try_idx, attempts, results>>
    /\ scorer_frame

SpecScorer == ScorerInit /\ [][FitOneInit \/ PickBest]_vars

\* C26: do_work_directly makes at most max_try_per_init * num_inits fit
\* attempts, skips only the attempts that raise InvalidArgumentError, stops
\* as soon as num_inits attempts have succeeded, and returns a successful
\* result whose pen_log_lik is at least that of every other successful
\* result, the earliest one on ties; with no successful attempt it fails its
\* assertion instead of returning.
C26_ScorerReturnsBestOfBoundedAttempts ==
    LET succeeded == {k \in 1..Len(attempts) : attempts[k] = "result"}
        skipped == {k \in 1..Len(attempts) : attempts[k] = "InvalidArgumentError"}
        other == {k \in 1..Len(attempts) : attempts[k] = "ValueError"}
    IN /\ Len(attempts) <= max_try_per_init * num_inits
       /\ Cardinality(succeeded) = Len(results)
       /\ Len(results) <= num_inits
       /\ \A k \in succeeded : \A j \in 1..(k - 1) :
            Cardinality({i \in succeeded : i <= j}) < num_inits
       /\ other # {} <=> pc = "raised"
       /\ other \subseteq {Len(attempts)}
       /\ \A k \in 1..Len(results) : attempts[results[k].init_index + 1] = "result"
       /\ (Len(results) = num_inits /\ num_inits > 0) => attempts[Len(attempts)] = "result"
       /\ pc = "returned" =>
            /\ \E k \in 1..Len(results) : best_res = results[k]
            /\ \A k \in 1..Len(results) :
                /\ results[k].pen_log_lik <= best_res.pen_log_lik
                /\ results[k].pen_log_lik = best_res.pen_log_lik
                    => best_res.init_index <= results[k].init_index
            /\ Len(results) = num_inits \/ Len(attempts) = max_tries
       /\ pc = "AssertionError" =>
            /\ results = <<>>
            /\ skipped = 1..max_tries
       /\ pc = "returned" => results # <<>>

\* C26 witness: a skipped attempt, then two results of equal pen_log_lik,
\* the first of which is returned
C26_Witness ==
    /\ pc = "returned"
    /\ Len(attempts) = 3
    /\ attempts[1] = "InvalidArgumentError"
    /\ Len(results) = 2
    /\ results[1].pen_log_lik = results[2].pen_log_lik
    /\ best_res = results[1]

----------------------------------------------------------------------------
(* AlleleSimulatorSimultaneous.simulate: racing and repairing along a branch *)

MaxDist == 3
MaxWait == 3
MaxInsertRv == 1
boost_len == 1

\* an event is applied when its waiting time is at most the remaining time
\* and the time increment
event_in_time_or_at_end(event_time, remain, incr) ==
    event_time <= (IF remain < incr THEN remain ELSE incr)

\* event_time < min(time_remain, time_incr)
event_in_time(event_time, remain, incr) ==
    event_time < (IF remain < incr THEN remain ELSE incr)

\* values of a trim length distribution of a target: the long one is bounded
\* by [long_min, max_trim], the short one by [1, long_min - 1]
del_dist_rvs(long_min, max_trim, is_long) ==
    IF is_long = 1 THEN long_min..max_trim ELSE 1..(long_min - 1)

\* the lengths drawn without any boost
do_repair_no_boost(tt, do_insertion, do_deletion, insert_len_raw, left_raw, right_raw, rv) ==
    [target_tract |-> tt, len_incr_rv |-> <<0, 0, 0>>,
     insert_len |-> IF do_insertion THEN insert_len_raw ELSE 0,
     left_del_len |-> IF do_deletion[1] \/ is_left_long(tt) THEN left_raw ELSE 0,
     right_del_len |-> IF do_deletion[2] \/ is_right_long(tt) THEN right_raw ELSE 0]

\* the lengths _do_repair passes to allele.indel; rv is the multinomial draw
\* of the boost
do_repair(tt, do_insertion, do_deletion, insert_len_raw, left_raw, right_raw, rv) ==
    IF is_left_long(tt) \/ is_right_long(tt) \/ tt.min_target # tt.max_target
    THEN [target_tract |-> tt, len_incr_rv |-> <<0, 0, 0>>,
          insert_len |-> IF do_insertion THEN insert_len_raw ELSE 0,
          left_del_len |-> IF do_deletion[1] \/ is_left_long(tt) THEN left_raw ELSE 0,
          right_del_len |-> IF do_deletion[2] \/ is_right_long(tt) THEN right_raw ELSE 0]
    ELSE [target_tract |-> tt, len_incr_rv |-> rv,
          insert_len |-> IF rv[1] = 1 \/ do_insertion THEN insert_len_raw ELSE 0,
          left_del_len |-> IF do_deletion[1] \/ rv[2] = 1 THEN left_raw ELSE 0,
          right_del_len |-> IF do_deletion[2] \/ rv[3] = 1 THEN right_raw ELSE 0]

\* target status after allele.indel: a focal indel of no length leaves the
\* targets as they were
indel(status, r) ==
    IF /\ r.target_tract.min_target = r.target_tract.max_target
       /\ r.insert_len = 0 /\ r.left_del_len = 0 /\ r.right_del_len = 0
    THEN status
    ELSE ApplyTargetTract(status, r.target_tract)

SimulateInit ==
    /\ NoCore
    /\ NoScorer /\ NoBirthDeath /\ NoUniq
    /\ pc = "simulating"
    /\ allele_tts \in {t \in AllTts : Len(t) <= 1}
    /\ node_dist \in 1..MaxDist
    /\ time_incr \in 1..MaxDist
    /\ time_remain = node_dist
    /\ applied_time = 0
    /\ repair = <<>>

simulate_frame ==
    UNCHANGED <<param_vars, hazard_vars, matrix_vars, input_vars, lik_vars, indel_vars,
                engine_vars, match_vars, scorer_vars, birth_death_vars, uniq_vars,
                node_dist, time_incr>>

\* a pass of the loop in which the raced event comes in time and is repaired
RepairTargetTract ==
    /\ pc = "simulating"
    /\ time_remain > 0
    /\ \E target_tract \in get_possible_target_tracts(ActiveTargets(allele_tts)),
          event_time \in 1..MaxWait :
        /\ event_in_time(event_time, time_remain, time_incr)
        /\ \E do_insertion \in BOOLEAN, do_deletion \in BOOLEAN \X BOOLEAN,
              insert_rv \in 0..MaxInsertRv,
              rv \in {<<1, 0, 0>>, <<0, 1, 0>>, <<0, 0, 1>>},
              left_raw \in del_dist_rvs(left_long_trim_min[target_tract.min_target + 1],
                                        left_max_trim[target_tract.min_target + 1],
                                        IF is_left_long(target_tract) THEN 1 ELSE 0),
              right_raw \in del_dist_rvs(right_long_trim_min[target_tract.max_target + 1],
                                         right_max_trim[target_tract.max_target + 1],
                                         IF is_right_long(target_tract) THEN 1 ELSE 0) :
            LET r == do_repair(target_tract, do_insertion, do_deletion,
                               boost_len + insert_rv, left_raw, right_raw, rv)
            IN /\ repair' = r @@ [event_time |-> event_time, time_before |-> time_remain]
               /\ allele_tts' = indel(allele_tts, r)
        /\ time_remain' = time_remain - event_time
        /\ applied_time' = applied_time + event_time
    /\ UNCHANGED pc
    /\ simulate_frame

\* a pass of the loop in which the raced event comes too late
LetIncrementPass ==
    /\ pc = "simulating"
    /\ time_remain > 0
    /\ ActiveTargets(allele_tts) # <<>>
    /\ \E event_time \in 1..MaxWait : ~event_in_time(event_time, time_remain, time_incr)
    /\ time_remain' = time_remain - time_incr
    /\ UNCHANGED <<pc, allele_tts, applied_time, repair>>
    /\ simulate_frame

\* the loop ends: no time remains or the race has no target to cut
ReturnAllele ==
    /\ pc = "simulating"
    /\ time_remain <= 0 \/ ActiveTargets(allele_tts) = <<>>
    /\ pc' = "returned"
    /\ UNCHANGED <<allele_tts, time_remain, applied_time, repair>>
    /\ simulate_frame

SpecSimulate == SimulateInit /\ [][RepairTargetTract \/ LetIncrementPass \/ ReturnAllele]_vars


C28_BoostMakesFocalShortIndelPositive ==
    repair # <<>> =>
        LET tt == repair.target_tract
            rv == repair.len_incr_rv
        IN IF tt.min_target = tt.max_target /\ ~is_left_long(tt) /\ ~is_right_long(tt)
           THEN /\ rv[1] + rv[2] + rv[3] = 1
                /\ rv[1] = 1 => repair.insert_len >= 1
                /\ rv[2] = 1 => repair.left_del_len >= 1
                /\ rv[3] = 1 => repair.right_del_len >= 1
                /\ repair.insert_len >= 1 \/ repair.left_del_len >= 1
                   \/ repair.right_del_len >= 1
           ELSE rv = <<0, 0, 0>>

\* a focal short event whose only positive length is the boosted left deletion
C28_Witness ==
    /\ repair # <<>>
    /\ repair.target_tract.min_target = repair.target_tract.max_target
    /\ ~is_left_long(repair.target_tract)
    /\ ~is_right_long(repair.target_tract)
    /\ repair.len_incr_rv = <<0, 1, 0>>
    /\ repair.insert_len = 0
    /\ repair.left_del_len >= 1
    /\ repair.right_del_len = 0

----------------------------------------------------------------------------
(* BirthDeathTreeSimulator.simulate: the tree is a sequence of nodes, each
   with the index of its parent (0 for the root), dist and dead; call_stack
   holds the pending calls of _simulate_tree, the next one first.  The two
   placeholder children of a dividing cell have dist 0 and are deleted after
   their subtrees are made, which hands their children to the dividing cell:
   the pending calls for them carry the dividing cell as the node to extend. *)

MaxTime == 3
MaxSimNodes == 6

\* the branch is as long as the race says, whatever time remains
raced_branch_length(branch_length, remain_time) ==
    branch_length

\* obs_branch_length = min(branch_length, remain_time)
obs_branch_length(branch_length, remain_time) ==
    IF branch_length < remain_time THEN branch_length ELSE remain_time

RECURSIVE dist_to_root(_, _)
\* the branch lengths on the path from the root to node n
dist_to_root(tree, n) ==
    IF tree[n].up = 0 THEN tree[n].dist
    ELSE tree[n].dist + dist_to_root(tree, tree[n].up)

\* the nodes of the tree without a child
get_leaves(tree) == {n \in 1..Len(tree) : \A m \in 1..Len(tree) : tree[m].up # n}

BirthDeathInit ==
    /\ NoCore
    /\ NoScorer /\ NoSimulate /\ NoUniq
    /\ pc = "simulating"
    /\ sim_time \in 0..MaxTime
    /\ max_nodes \in 1..MaxSimNodes
    /\ curr_nodes = 1
    /\ sim_tree = <<[up |-> 0, dist |-> 0, dead |-> FALSE]>>
    /\ call_stack = <<[tree |-> 1, remain_time |-> sim_time]>>

birth_death_frame ==
    UNCHANGED <<param_vars, hazard_vars, matrix_vars, input_vars, lik_vars, indel_vars,
                engine_vars, match_vars, scorer_vars, simulate_vars, uniq_vars,
                sim_time, max_nodes>>

\* one call of _simulate_tree, up to its recursive calls
SimulateTree ==
    /\ pc = "simulating"
    /\ call_stack # <<>>
    /\ curr_nodes' = curr_nodes + 1
    /\ LET tree == Head(call_stack).tree
           remain_time == Head(call_stack).remain_time
       IN IF curr_nodes' > max_nodes
          THEN /\ pc' = "raised"
               /\ UNCHANGED <<sim_tree, call_stack>>
          ELSE IF remain_time = 0
          THEN /\ call_stack' = Tail(call_stack)
               /\ UNCHANGED <<pc, sim_tree>>
          ELSE \E division_happens \in BOOLEAN, branch_length \in 1..(MaxTime + 1) :
                 LET obs == obs_branch_length(branch_length, remain_time)
                     remain == remain_time - obs
                     child == Len(sim_tree) + 1
                 IN /\ UNCHANGED pc
                    /\ IF remain <= 0
                       THEN /\ sim_tree' = Append(sim_tree,
                                   [up |-> tree, dist |-> obs, dead |-> FALSE])
                            /\ call_stack' = Tail(call_stack)
                       ELSE IF division_happens
                       THEN /\ sim_tree' = Append(sim_tree,
                                   [up |-> tree, dist |-> obs, dead |-> FALSE])
                            /\ call_stack' =
                                   <<[tree |-> child, remain_time |-> remain],
                                     [tree |-> child, remain_time |-> remain]>>
                                   \o Tail(call_stack)
                       ELSE /\ sim_tree' = Append(sim_tree,
                                   [up |-> tree, dist |-> obs, dead |-> TRUE])
                            /\ call_stack' = Tail(call_stack)
    /\ birth_death_frame

\* the outermost call has returned: simulate returns the tree
ReturnTree ==
    /\ pc = "simulating"
    /\ call_stack = <<>>
    /\ pc' = "returned"
    /\ UNCHANGED <<curr_nodes, sim_tree, call_stack>>
    /\ birth_death_frame

SpecBirthDeath == BirthDeathInit /\ [][SimulateTree \/ ReturnTree]_vars

\* C29: in a returned tree the branch lengths from the root to any leaf sum
\* to at most time, and to exactly time for a leaf not marked dead; simulate
\* raises ValueError, and does not return, exactly when the count of
\* simulated nodes exceeds max_nodes.
C29_LeavesAtObservationTimeWithinMaxNodes ==
    /\ pc = "returned" =>
          /\ \A n \in get_leaves(sim_tree) :
                /\ dist_to_root(sim_tree, n) <= sim_time
                /\ ~sim_tree[n].dead => dist_to_root(sim_tree, n) = sim_time
          /\ Len(sim_tree) <= curr_nodes
    /\ pc = "raised" <=> curr_nodes > max_nodes

\* a returned tree with a division, a cell that died and a cell observed at
\* the end
C29_Witness ==
    /\ pc = "returned"
    /\ Len(sim_tree) >= 4
    /\ \E n \in get_leaves(sim_tree) : sim_tree[n].dead
    /\ \E n \in get_leaves(sim_tree) : ~sim_tree[n].dead

----------------------------------------------------------------------------
(* TreeDistanceMeasurer.get_uniq_trees: a tree is named by its class under
   "distance 0", so two trees are at distance 0 iff they are equal numbers;
   max_trees is <<>> for None and <<k>> for the number k. *)

MaxTrees == 3
MaxTreeClasses == 3

\* the orders random.shuffle can leave the list in
shuffle(s) == {[i \in 1..Len(s) |-> s[p[i]]] : p \in Permutations(1..Len(s))}

UniqInit ==
    /\ NoCore
    /\ NoScorer /\ NoSimulate /\ NoBirthDeath
    /\ pc = "calling"
    /\ trees \in UNION {[1..n -> 1..MaxTreeClasses] : n \in 1..MaxTrees}
    /\ max_trees \in {<<>>} \cup {<<k>> : k \in 1..MaxTrees}
    /\ uniq_trees = <<>>

uniq_frame ==
    UNCHANGED <<param_vars, hazard_vars, matrix_vars, input_vars, lik_vars, indel_vars,
                engine_vars, match_vars, scorer_vars, simulate_vars, birth_death_vars,
                max_trees>>

\* max_trees is 1: the first tree of the shuffled list is returned
ReturnFirstTree ==
    /\ pc = "calling"
    /\ max_trees = <<1>>
    /\ trees' \in shuffle(trees)
    /\ uniq_trees' = <<trees'[1]>>
    /\ pc' = "returned"
    /\ uniq_frame

\* any other max_trees: the class method goes on to evaluate self.scratch_dir,
\* and no name self is bound in it
RaiseNameError ==
    /\ pc = "calling"
    /\ max_trees # <<1>>
    /\ trees' \in shuffle(trees)
    /\ uniq_trees' = <<trees'[1]>>
    /\ pc' = "NameError"
    /\ uniq_frame

SpecUniq == UniqInit /\ [][ReturnFirstTree \/ RaiseNameError]_vars

\* C30: for every non-empty list, get_uniq_trees returns trees no two of
\* which are at distance 0, and at most max_trees of them when max_trees is
\* given.
C30_UniqTreesDistinctAndAtMostMaxTrees ==
    pc # "calling" =>
        /\ pc = "returned"
        /\ \A i, j \in 1..Len(uniq_trees) : uniq_trees[i] = uniq_trees[j] => i = j
        /\ max_trees # <<>> => Len(uniq_trees) <= max_trees[1]

====
